---- MODULE Spec2Model ----
(***************************************************************************)
(* Verification model of the quant-analytics dashboard: the streaming     *)
(* ingestion pipeline (services/data_ingestion.py, duplicated verbatim in *)
(* app.py) with its feed worker threads, lock-guarded tick buffer, tick   *)
(* store and connection map; the alert service                             *)
(* (services/alert_service.py); the analytics (QuantitativeAnalytics in   *)
(* services/analytics.py and in app.py); and the request handlers of      *)
(* app.py.                                                                 *)
(*                                                                         *)
(* Specifications:                                                         *)
(*   Spec           feed workers running on_message concurrently with     *)
(*                  get_recent_buffer drains and add_callback             *)
(*                  registrations;                                        *)
(*   SpecSup        one caller issuing start / start_symbol / stop calls  *)
(*                  in sequence while the transport opens, fails and      *)
(*                  closes connections;                                   *)
(*   SpecSupLive    SpecSup with the fairness of a running caller and of  *)
(*                  a transport that honours close;                       *)
(*   SpecSupConc    two callers issuing those calls concurrently;         *)
(*   SpecAlert      one thread calling the alert service;                 *)
(*   SpecAlertConc  feed threads checking alerts concurrently;            *)
(*   SpecResample   resample_ticks applied to tick frames;                *)
(*   SpecRoundTrip  trade messages normalized and then resampled;         *)
(*   SpecStore      ticks saved and read back with get_recent_ticks;      *)
(*   SpecSeries     calculate_spread_zscore and adf_test applied to       *)
(*                  spread series;                                         *)
(*   SpecAnalytics  pairwise_regression, rolling_correlation and the      *)
(*                  handler calculate_analytics called on a store of two  *)
(*                  symbols;                                               *)
(*   SpecAppConc    two request threads of app.py running add_symbol,     *)
(*                  start_collection and stop_collection;                  *)
(*   SpecIngestor   the websocket thread and the batch thread of the      *)
(*                  standalone ingestor (SpecIngestorLive: with the       *)
(*                  batch thread scheduled fairly).                        *)
(***************************************************************************)
EXTENDS Integers, Sequences, FiniteSets, TLC

VARIABLES
    ws_connections,  \* self.ws_connections: dict symbol -> connection, in insertion order
    is_running,      \* self.is_running
    symbols,         \* self.symbols
    buffer,          \* self.buffer: list of ticks
    buffer_lock,     \* self.buffer_lock: the set of threads holding it
    callbacks,       \* self.callbacks: list of subscriber callbacks
    db_ticks,        \* rows of the ticks table, in insertion order
    conns,           \* the WebSocketApp objects created so far
    worker,          \* per connection: the thread running ws.run_forever()
    drainer,         \* the thread calling get_recent_buffer
    caller,          \* the thread calling start / start_symbol / stop
    msgsLeft,        \* messages the feed will still deliver
    nextId,          \* identity given to the next received message
    log,             \* observations: what happened to each message
    parked,          \* a second thread calling start / start_symbol / stop, while it is switched out
    alert_objs,      \* the alert dicts that exist, by object identity
    alerts,          \* self.alerts: the dicts of the list, in order
    alert_callbacks, \* self.alert_callbacks
    athread,         \* per thread: its call into the AlertService
    now,             \* the clock datetime.now() reads
    alert_log,       \* observations: what subscribers received, what calls did
    df,              \* the tick frame handed to resample_ticks
    bars,            \* what resample_ticks returned
    series,          \* the spread series handed to calculate_spread_zscore and adf_test
    ret,             \* what the last call of the store or of the analytics returned
    active_symbols,  \* app.py: the global active_symbols
    is_collecting,   \* app.py: the global is_collecting
    handler,         \* the request handler the caller's thread is running
    hparked,         \* the request handler of the thread that is switched out
    ingestor         \* ingestor.py: its globals, its two threads and its database session

\* the state of the alert service, and of the resampler
alertVars == <<alert_objs, alerts, alert_callbacks, athread, now, alert_log>>
resampleVars == <<df, bars>>
\* the globals of app.py and the threads of its request handlers
appVars == <<active_symbols, is_collecting, handler, hparked>>
\* the state added for the store, the analytics and the request handlers
laterVars == <<series, ret, appVars, ingestor>>
\* what the ingestion service's methods never touch
restVars == <<parked, alertVars, resampleVars, laterVars>>
\* the state of the ingestion service
ingestVars == <<ws_connections, is_running, symbols, buffer, buffer_lock, callbacks,
                db_ticks, conns, worker, drainer, caller, parked, msgsLeft, nextId, log>>

vars == <<ingestVars, alertVars, resampleVars, laterVars>>

----------------------------------------------------------------------------
(* Bounds of the model. *)

\* The code evicts when len(buffer) > 1000; the model scales the capacity down.
Capacity == 2
\* Messages delivered by the feed in one behaviour of Spec.
MaxMsgs == 3
\* start / start_symbol / stop calls issued in one behaviour of SpecSup.
MaxCalls == 3

Symbols == {"btcusdt", "ethusdt"}
\* the subscribers that register, named in the order they do: app.py registers
\* on_new_tick
Subscribers == <<"on_new_tick", "on_tick_2">>
\* threads: the worker of connection c, and the drainer
WorkerThread(c) == <<"worker", c>>
DrainerThread == <<"drainer", 0>>
None == [none |-> TRUE]

----------------------------------------------------------------------------
(* JSON values and feed messages. *)

Str(s) == [t |-> "str", v |-> s]
Num(n) == [t |-> "num", v |-> n]
Null == [t |-> "null", v |-> 0]

\* str.lower() on the symbols the feed sends
Lower(s) ==
    CASE s = "BTCUSDT" -> "btcusdt"
      [] s = "ETHUSDT" -> "ethusdt"
      [] OTHER -> s

Upper(s) ==
    CASE s = "btcusdt" -> "BTCUSDT"
      [] s = "ethusdt" -> "ETHUSDT"
      [] OTHER -> s

\* the decimal strings the model's feed sends, with the float they parse to
NumericStrings == {"100", "101"}
ParseDecimal(s) == IF s = "100" THEN 100 ELSE 101

\* float(x): numbers and numeric strings convert, anything else raises
FloatRaises(x) ==
    \/ x.t = "null"
    \/ x.t = "str" /\ x.v \notin NumericStrings
Float(x) == IF x.t = "num" THEN x.v ELSE ParseDecimal(x.v)

\* data['E'] / 1000 raises unless E is a number
DivRaises(x) == x.t # "num"
\* datetime.fromtimestamp(ms / 1000): whole seconds and microseconds
FromTimestamp(ms) == [sec |-> ms \div 1000, usec |-> (ms % 1000) * 1000]

\* a well-formed trade event of the exchange
TradeEvent(sym, ms, p, q) ==
    [e |-> Str("trade"), s |-> Str(Upper(sym)), E |-> Num(ms), p |-> Str(p), q |-> Str(q)]

Without(obj, k) == [x \in (DOMAIN obj) \ {k} |-> obj[x]]
With(obj, k, v) == [x \in (DOMAIN obj) \cup {k} |-> IF x = k THEN v ELSE obj[x]]

\* prices differ by symbol
PriceOf(sym) == IF sym = "btcusdt" THEN "101" ELSE "100"
GoodBodies(sym) == {TradeEvent(sym, 1500, PriceOf(sym), "100")}

\* trade events with one required field missing or of the wrong kind
MalformedBodies(sym) ==
    LET g == TradeEvent(sym, 1500, "100", "100") IN
    {Without(g, k) : k \in {"s", "E", "p", "q"}}
      \cup {With(g, "s", Num(7)), With(g, "E", Str("1500")), With(g, "E", Null),
            With(g, "p", Str("abc")), With(g, "p", Null),
            With(g, "q", Str("abc")), With(g, "q", Null)}

\* JSON objects whose event type is not trade, or that carry none
NonTradeBodies(sym) ==
    LET g == TradeEvent(sym, 1500, "100", "100") IN
    {With(g, "e", Str("aggTrade")), Without(g, "e"), [result |-> Null, id |-> Num(1)]}

\* a frame is text that json.loads parses to a body, or text it rejects
Frame(kind, body) == [kind |-> kind, body |-> body]
Frames(sym) ==
    {Frame("good", b) : b \in GoodBodies(sym)}
      \cup {Frame("malformed", b) : b \in MalformedBodies(sym)}
      \cup {Frame("nontrade", b) : b \in NonTradeBodies(sym)}
      \cup {Frame("notjson", Null), Frame("notobject", Num(1))}

----------------------------------------------------------------------------
(* normalize_tick *)

Missing(data, k) == k \notin DOMAIN data

\* a normalize_tick that does not reject strings float() cannot parse
LenientNormalizeRaises(data) ==
    \/ Missing(data, "s") \/ Missing(data, "E") \/ Missing(data, "p") \/ Missing(data, "q")
    \/ data["s"].t # "str"
    \/ DivRaises(data["E"])
    \/ data["p"].t = "null"
    \/ data["q"].t = "null"

\* normalize_tick raises KeyError, AttributeError, TypeError or ValueError
NormalizeRaises(data) ==
    \/ Missing(data, "s") \/ Missing(data, "E") \/ Missing(data, "p") \/ Missing(data, "q")
    \/ data["s"].t # "str"
    \/ DivRaises(data["E"])
    \/ FloatRaises(data["p"])
    \/ FloatRaises(data["q"])

normalize_tick(data) ==
    [symbol |-> Lower(data["s"].v),
     timestamp |-> FromTimestamp(data["E"].v),
     price |-> Float(data["p"]),
     size |-> Float(data["q"])]

----------------------------------------------------------------------------
(* Observations kept beside the program state.  Every tick gets an identity *)
(* (1, 2, ...), carried in the field id, so that it can be followed through *)
(* the store, the buffer, the callbacks and the drains.                     *)

\* the tick dict, with its identity
Tagged(tick, id) ==
    [id |-> id, symbol |-> tick.symbol, timestamp |-> tick.timestamp,
     price |-> tick.price, size |-> tick.size]
Ids(ticks) == {ticks[k].id : k \in 1..Len(ticks)}
IdSeq(ticks) == [k \in 1..Len(ticks) |-> ticks[k].id]
Count(seq, x) == Cardinality({k \in 1..Len(seq) : seq[k] = x})

EmptyLog ==
    [appended |-> {},      \* ids appended to the buffer
     sinceClear |-> <<>>,  \* ids appended since the buffer was last cleared
     evicted |-> {},       \* ids removed by the overflow pop
     notified |-> {},      \* ids handed to at least one callback
     returned |-> <<>>,    \* ids returned by clearing drains, in order
     opened |-> {},        \* connections opened since the last stop() began
     closed |-> <<>>,      \* connections on which close() was called, in order
     lastCall |-> None,    \* the last call the caller completed
     raised |-> FALSE,     \* a stop() ended in RuntimeError
     atStop |-> None]      \* what the last stop() found when it was called

----------------------------------------------------------------------------
(* on_message, on the worker thread of connection c *)

\* pc "recv": the thread is inside run_forever, between two on_message calls.
\* The other fields describe the on_message call in hand or, at "recv", the
\* last one: class of the frame, identity and value of its tick, outcome of
\* save_tick, whether the except branch printed an error, the index into
\* self.callbacks, the callbacks invoked so far, and (after) the class of the
\* frame the call before it handled.
IdleWorker ==
    [pc |-> "recv", class |-> "none", id |-> 0, tick |-> None, save |-> "none",
     error |-> FALSE, i |-> 0, called |-> <<>>, after |-> "none"]

SetWorker(c, w) == worker' = [worker EXCEPT ![c] = w]
\* on_message returns
Return(c, w) ==
    SetWorker(c, [w EXCEPT !.pc = "recv", !.tick = None, !.i = 0, !.called = <<>>])
\* except Exception as e: print(...), then on_message returns
Except(c, w) == Return(c, [w EXCEPT !.error = TRUE])

\* json.loads raises on text that is not JSON; data.get raises unless data is a dict
LoadsRaises(f) == f.kind = "notjson"
GetRaises(f) == f.kind = "notobject"
\* an on_message that does not look at the event type
AnyEvent(data) == TRUE
IsTrade(data) == "e" \in DOMAIN data /\ data["e"] = Str("trade")

\* where on_message goes after json.loads, data.get('e') and normalize_tick
Dispatch(f) ==
    IF LoadsRaises(f) \/ GetRaises(f) THEN "except"
    ELSE IF ~IsTrade(f.body) THEN "return"
    ELSE IF NormalizeRaises(f.body) THEN "except"
    ELSE "save"

\* what the feed sent
Class(f) ==
    CASE f.kind = "good" -> "trade"
      [] f.kind = "nontrade" -> "nontrade"
      [] OTHER -> "malformed"

\* run_forever hands the next text frame of the connection to on_message, which
\* parses it, looks at the event type and normalizes a trade
Receive(c) ==
    /\ worker[c].pc = "recv"
    /\ conns[c].state = "Connected"
    /\ msgsLeft > 0
    /\ \E f \in Frames(conns[c].sym) :
         LET w == [IdleWorker EXCEPT !.class = Class(f), !.after = worker[c].class] IN
         CASE Dispatch(f) = "save" ->
                /\ SetWorker(c, [w EXCEPT !.pc = "save", !.id = nextId,
                                          !.tick = Tagged(normalize_tick(f.body), nextId)])
                /\ nextId' = nextId + 1
           [] Dispatch(f) = "return" -> Return(c, w) /\ UNCHANGED nextId
           [] OTHER -> Except(c, w) /\ UNCHANGED nextId
    /\ msgsLeft' = msgsLeft - 1
    /\ UNCHANGED <<restVars, ws_connections, is_running, symbols, buffer, buffer_lock, callbacks,
                   db_ticks, conns, drainer, caller, log>>

\* self.db.save_tick(...): the INSERT commits, or sqlite raises
SaveOutcomes == {"ok", "raised"}
\* where on_message goes after save_tick
AfterSave(outcome) == IF outcome = "ok" THEN "lock" ELSE "except"

Save(c) ==
    LET w == worker[c] IN
    /\ w.pc = "save"
    /\ \E outcome \in SaveOutcomes :
          /\ db_ticks' = IF outcome = "ok" THEN Append(db_ticks, w.tick) ELSE db_ticks
          /\ IF AfterSave(outcome) = "except"
             THEN Except(c, [w EXCEPT !.save = outcome])
             ELSE SetWorker(c, [w EXCEPT !.save = outcome, !.pc = AfterSave(outcome)])
    /\ UNCHANGED <<restVars, ws_connections, is_running, symbols, buffer, buffer_lock, callbacks,
                   conns, drainer, caller, msgsLeft, nextId, log>>

\* a critical section entered without waiting for the lock
NoLock(t) == TRUE
\* threading.Lock: acquire blocks while another thread holds the lock
CanAcquire(t) == buffer_lock = {}

\* with self.buffer_lock: self.buffer.append(tick)
BufferAppend(c) ==
    LET w == worker[c] IN
    /\ w.pc = "lock"
    /\ CanAcquire(WorkerThread(c))
    /\ buffer_lock' = buffer_lock \cup {WorkerThread(c)}
    /\ buffer' = Append(buffer, w.tick)
    /\ log' = [log EXCEPT !.appended = @ \cup {w.id}, !.sinceClear = Append(@, w.id)]
    /\ SetWorker(c, [w EXCEPT !.pc = "trim"])
    /\ UNCHANGED <<restVars, ws_connections, is_running, symbols, callbacks, db_ticks,
                   conns, drainer, caller, msgsLeft, nextId>>

\* an overflow test that is off by one
OverflowsEarly(b) == Len(b) >= Capacity
\* if len(self.buffer) > 1000
Overflows(b) == Len(b) > Capacity
\* a pop() that removes the newest entry instead
DropNewest(b) == SubSeq(b, 1, Len(b) - 1)
\* self.buffer.pop(0)
Pop0(b) == Tail(b)

\* the overflow check and pop, then the end of the with block
Trim(c) ==
    LET w == worker[c] IN
    /\ w.pc = "trim"
    /\ IF Overflows(buffer)
       THEN /\ buffer' = Pop0(buffer)
            /\ log' = [log EXCEPT !.evicted = @ \cup (Ids(buffer) \ Ids(Pop0(buffer)))]
       ELSE UNCHANGED <<buffer, log>>
    /\ buffer_lock' = buffer_lock \ {WorkerThread(c)}
    /\ SetWorker(c, [w EXCEPT !.pc = "callbacks", !.i = 1])
    /\ UNCHANGED <<restVars, ws_connections, is_running, symbols, callbacks, db_ticks,
                   conns, drainer, caller, msgsLeft, nextId>>

\* an iteration over the callbacks from the last registered to the first
ReverseCallback(i) == callbacks[Len(callbacks) + 1 - i]
\* for callback in self.callbacks: the i-th element the iteration visits
NextCallback(i) == callbacks[i]
CallbackOutcomes == {"ok", "raised"}

Callback(c) ==
    LET w == worker[c] IN
    /\ w.pc = "callbacks"
    /\ IF w.i <= Len(callbacks)
       THEN /\ \E outcome \in CallbackOutcomes :
                 LET v == [w EXCEPT !.called = Append(@, NextCallback(w.i))] IN
                 IF outcome = "ok"
                 THEN SetWorker(c, [v EXCEPT !.i = @ + 1])
                 ELSE Except(c, v)
            /\ log' = [log EXCEPT !.notified = @ \cup {w.id}]
       ELSE Return(c, w) /\ UNCHANGED log
    /\ UNCHANGED <<restVars, ws_connections, is_running, symbols, buffer, buffer_lock, callbacks,
                   db_ticks, conns, drainer, caller, msgsLeft, nextId>>

\* add_callback
add_callback ==
    /\ Len(callbacks) < Len(Subscribers)
    /\ callbacks' = Append(callbacks, Subscribers[Len(callbacks) + 1])
    /\ UNCHANGED <<restVars, ws_connections, is_running, symbols, buffer, buffer_lock, db_ticks,
                   conns, worker, drainer, caller, msgsLeft, nextId, log>>

on_message(c) ==
    \/ Receive(c) \/ Save(c) \/ BufferAppend(c) \/ Trim(c) \/ Callback(c)

----------------------------------------------------------------------------
(* get_recent_buffer(clear), on the drainer thread *)

IdleDrainer == [pc |-> "idle", clear |-> FALSE, copy |-> <<>>]

\* self.buffer.copy()
BufferCopy(b) == b

\* the call, with self.buffer_lock: and buffer_copy = self.buffer.copy()
DrainCopy ==
    /\ drainer.pc = "idle"
    /\ CanAcquire(DrainerThread)
    /\ buffer_lock' = buffer_lock \cup {DrainerThread}
    /\ \E clear \in BOOLEAN :
          drainer' = [pc |-> "copied", clear |-> clear, copy |-> BufferCopy(buffer)]
    /\ UNCHANGED <<restVars, ws_connections, is_running, symbols, buffer, callbacks, db_ticks,
                   conns, worker, caller, msgsLeft, nextId, log>>

\* if clear: self.buffer.clear(); the end of the with block; return buffer_copy
DrainReturn ==
    /\ drainer.pc = "copied"
    /\ IF drainer.clear
       THEN /\ buffer' = <<>>
            /\ log' = [log EXCEPT !.sinceClear = <<>>, !.returned = @ \o IdSeq(drainer.copy)]
       ELSE UNCHANGED <<buffer, log>>
    /\ buffer_lock' = buffer_lock \ {DrainerThread}
    /\ drainer' = IdleDrainer
    /\ UNCHANGED <<restVars, ws_connections, is_running, symbols, callbacks, db_ticks,
                   conns, worker, caller, msgsLeft, nextId>>

get_recent_buffer == DrainCopy \/ DrainReturn

----------------------------------------------------------------------------
(* The transport: what ws.run_forever() does on the worker thread of a      *)
(* connection.  A connection is Connecting from thread.start(), Connected   *)
(* once the handshake is done, Closed after an error, a close by the peer   *)
(* or ws.close().                                                            *)

Rank(state) ==
    CASE state = "Idle" -> 0
      [] state = "Connecting" -> 1
      [] state = "Connected" -> 2
      [] state = "Closed" -> 3

\* on_open only prints
on_open(c) ==
    /\ worker[c].pc = "recv"
    /\ conns[c].state = "Connecting"
    /\ conns' = [conns EXCEPT ![c].state = "Connected"]
    /\ UNCHANGED <<restVars, ws_connections, is_running, symbols, buffer, buffer_lock, callbacks,
                   db_ticks, worker, drainer, caller, msgsLeft, nextId, log>>

\* an on_close that reconnects
Reconnects(conn) == [conn EXCEPT !.state = "Connecting"]
\* on_error and on_close only print: nothing reconnects, run_forever returns
AfterClose(conn) == [conn EXCEPT !.state = "Closed"]

\* a transport error (on_error, then on_close) or a close by the peer (on_close)
Drop(c) ==
    /\ worker[c].pc = "recv"
    /\ conns[c].state \in {"Connecting", "Connected"}
    /\ conns' = [conns EXCEPT ![c] = AfterClose(@)]
    /\ SetWorker(c, [worker[c] EXCEPT !.pc = IF AfterClose(conns[c]).state = "Closed"
                                            THEN "exited" ELSE "recv"])
    /\ UNCHANGED <<restVars, ws_connections, is_running, symbols, buffer, buffer_lock, callbacks,
                   db_ticks, drainer, caller, msgsLeft, nextId, log>>

\* run_forever notices that ws.close() was called: on_close, and the thread ends
Exit(c) ==
    /\ worker[c].pc = "recv"
    /\ conns[c].state = "Closed"
    /\ SetWorker(c, [worker[c] EXCEPT !.pc = "exited"])
    /\ UNCHANGED <<restVars, ws_connections, is_running, symbols, buffer, buffer_lock, callbacks,
                   db_ticks, conns, drainer, caller, msgsLeft, nextId, log>>

run_forever(c) == on_open(c) \/ Drop(c) \/ Exit(c)

----------------------------------------------------------------------------
(* start_symbol, start and stop, on the caller's thread *)

\* n counts the calls made; sym, ws, todo and i are the locals of the call,
\* size the number of entries the iterator of stop() found in the map
IdleCaller ==
    [pc |-> "idle", op |-> "none", n |-> 0, sym |-> "", ws |-> 0, todo |-> <<>>, i |-> 0,
     size |-> 0]

\* a start_symbol that does not look at the map
NeverTracked(sym) == FALSE
\* if symbol in self.ws_connections
Tracked(sym) == \E k \in 1..Len(ws_connections) : ws_connections[k].sym = sym

\* self.ws_connections[symbol] = ws
Insert(map, sym, ws) ==
    IF \E k \in 1..Len(map) : map[k].sym = sym
    THEN [k \in 1..Len(map) |-> IF map[k].sym = sym THEN [sym |-> sym, ws |-> ws] ELSE map[k]]
    ELSE Append(map, [sym |-> sym, ws |-> ws])

\* the call returns to its caller
Returns(arg) ==
    /\ caller' = [IdleCaller EXCEPT !.n = caller.n]
    /\ log' = [log EXCEPT !.lastCall = [op |-> caller.op, arg |-> arg]]

CallStartSymbol ==
    /\ caller.pc = "idle"
    /\ caller.n + parked.n < MaxCalls
    /\ \E sym \in Symbols :
          caller' = [caller EXCEPT !.pc = "check", !.op = "start_symbol", !.n = @ + 1,
                                   !.sym = sym, !.todo = <<sym>>]
    /\ UNCHANGED <<restVars, ws_connections, is_running, symbols, buffer, buffer_lock, callbacks,
                   db_ticks, conns, worker, drainer, msgsLeft, nextId, log>>

\* the lists start() is called with
SymbolLists ==
    {<<a>> : a \in Symbols} \cup {<<a, b>> : a \in Symbols, b \in Symbols}

\* self.symbols = symbols; self.is_running = True
CallStart ==
    /\ caller.pc = "idle"
    /\ caller.n + parked.n < MaxCalls
    /\ \E list \in SymbolLists :
          /\ caller' = [caller EXCEPT !.pc = "loop", !.op = "start", !.n = @ + 1,
                                      !.todo = list]
          /\ symbols' = list
    /\ is_running' = TRUE
    /\ UNCHANGED <<restVars, ws_connections, buffer, buffer_lock, callbacks, db_ticks, conns,
                   worker, drainer, msgsLeft, nextId, log>>

\* for symbol in symbols: self.start_symbol(symbol); time.sleep(0.1)
StartLoop ==
    /\ caller.pc = "loop"
    /\ IF caller.i < Len(caller.todo)
       THEN /\ caller' = [caller EXCEPT !.pc = "check", !.i = @ + 1,
                                        !.sym = caller.todo[caller.i + 1]]
            /\ UNCHANGED log
       ELSE Returns(symbols)
    /\ UNCHANGED <<restVars, ws_connections, is_running, symbols, buffer, buffer_lock, callbacks,
                   db_ticks, conns, worker, drainer, msgsLeft, nextId>>

\* start_symbol returns: to start()'s loop, or to the caller
SymbolDone ==
    IF caller.op = "start"
    THEN caller' = [caller EXCEPT !.pc = "loop"] /\ UNCHANGED log
    ELSE Returns(caller.sym)

\* if symbol in self.ws_connections: return
StartSymbolCheck ==
    /\ caller.pc = "check"
    /\ IF Tracked(caller.sym)
       THEN SymbolDone
       ELSE caller' = [caller EXCEPT !.pc = "open"] /\ UNCHANGED log
    /\ UNCHANGED <<restVars, ws_connections, is_running, symbols, buffer, buffer_lock, callbacks,
                   db_ticks, conns, worker, drainer, msgsLeft, nextId>>

\* ws = websocket.WebSocketApp(...); the thread running ws.run_forever() starts
StartSymbolOpen ==
    /\ caller.pc = "open"
    /\ conns' = Append(conns, [sym |-> caller.sym, state |-> "Connecting"])
    /\ worker' = Append(worker, IdleWorker)
    /\ caller' = [caller EXCEPT !.pc = "insert", !.ws = Len(conns) + 1]
    /\ log' = [log EXCEPT !.opened = @ \cup {Len(conns) + 1}]
    /\ UNCHANGED <<restVars, ws_connections, is_running, symbols, buffer, buffer_lock, callbacks,
                   db_ticks, drainer, msgsLeft, nextId>>

\* self.ws_connections[symbol] = ws
StartSymbolInsert ==
    /\ caller.pc = "insert"
    /\ ws_connections' = Insert(ws_connections, caller.sym, caller.ws)
    /\ SymbolDone
    /\ UNCHANGED <<restVars, is_running, symbols, buffer, buffer_lock, callbacks, db_ticks,
                   conns, worker, drainer, msgsLeft, nextId>>

\* the connections of the map, as self.ws_connections.values() yields them
Values(map) == [k \in 1..Len(map) |-> map[k].ws]
ValueSet(map) == {map[k].ws : k \in 1..Len(map)}
\* what the supervisor's state is, for comparing two states
SupState == <<ws_connections, is_running, symbols, conns, log.closed>>

\* self.is_running = False
CallStop ==
    /\ caller.pc = "idle"
    /\ caller.n + parked.n < MaxCalls
    /\ caller' = [caller EXCEPT !.pc = "closing", !.op = "stop", !.n = @ + 1,
                             !.size = Len(ws_connections)]
    /\ is_running' = FALSE
    /\ log' = [log EXCEPT !.opened = {},
                          !.atStop = [tracked |-> ValueSet(ws_connections),
                                      second |-> log.lastCall # None /\ log.lastCall.op = "stop",
                                      before |-> SupState]]
    /\ UNCHANGED <<restVars, ws_connections, symbols, buffer, buffer_lock, callbacks, db_ticks,
                   conns, worker, drainer, msgsLeft, nextId>>

\* a close() that leaves the connection as it is
NoClose(conn) == conn
\* ws.close()
Close(conn) == [conn EXCEPT !.state = "Closed"]

\* for ws in self.ws_connections.values(): ws.close()
\* The iterator raises RuntimeError when the dict has changed size since the
\* loop began; the exception leaves stop() before the map is cleared, and
\* the thread is left with it (op "raised") until its next call.
StopLoop ==
    /\ caller.pc = "closing"
    /\ IF Len(ws_connections) # caller.size
       THEN /\ caller' = [IdleCaller EXCEPT !.n = caller.n, !.op = "raised"]
            /\ log' = [log EXCEPT !.lastCall = [op |-> caller.op, arg |-> <<>>],
                                  !.raised = TRUE]
            /\ UNCHANGED conns
       ELSE IF caller.i < Len(ws_connections)
       THEN LET ws == Values(ws_connections)[caller.i + 1] IN
            /\ conns' = [conns EXCEPT ![ws] = Close(@)]
            /\ log' = [log EXCEPT !.closed = Append(@, ws)]
            /\ caller' = [caller EXCEPT !.i = @ + 1]
       ELSE /\ caller' = [caller EXCEPT !.pc = "clear"]
            /\ UNCHANGED <<conns, log>>
    /\ UNCHANGED <<restVars, ws_connections, is_running, symbols, buffer, buffer_lock, callbacks,
                   db_ticks, worker, drainer, msgsLeft, nextId>>

\* a stop() that forgets to clear the map
NotCleared(map) == map
\* self.ws_connections.clear()
Cleared(map) == <<>>

StopClear ==
    /\ caller.pc = "clear"
    /\ ws_connections' = Cleared(ws_connections)
    /\ Returns(<<>>)
    /\ UNCHANGED <<restVars, is_running, symbols, buffer, buffer_lock, callbacks, db_ticks,
                   conns, worker, drainer, msgsLeft, nextId>>

\* the interpreter switches between the two threads that call the supervisor
Switch ==
    /\ caller # parked
    /\ caller' = parked
    /\ parked' = caller
    /\ UNCHANGED <<alertVars, resampleVars, laterVars, ws_connections, is_running, symbols, buffer,
                   buffer_lock, callbacks, db_ticks, conns, worker, drainer, msgsLeft,
                   nextId, log>>

start_symbol == CallStartSymbol \/ StartSymbolCheck \/ StartSymbolOpen \/ StartSymbolInsert
start == CallStart \/ StartLoop
stop == CallStop \/ StopLoop \/ StopClear

----------------------------------------------------------------------------
(* AlertService (services/alert_service.py).  An alert is a dict, and a dict *)
(* is an object: alert_objs[o] is the content of dict o, self.alerts lists   *)
(* dicts by identity, and alert.copy() makes a new dict.                     *)

\* alerts created in one behaviour
MaxAlerts == 3
\* calls into the service in one behaviour
MaxAlertCalls == 4

Conditions == {"above", "below"}
Thresholds == {100}
TickPrices == {99, 100, 101}
\* the subscribers that register, named in the order they do
AlertSubscribers == <<"notify_ui", "notify_log">>
RequestThread == <<"request", 0>>
FeedThreads == {WorkerThread(1), WorkerThread(2)}
AlertThreads == {RequestThread} \cup FeedThreads

\* list, i, triggered and j are the locals of check_price_alert; detached
\* says that self.alerts was rebound since the loop began, so that the loop
\* runs over a list object nothing else names; before is the state of the
\* dicts when the call began
IdleAlertThread ==
    [pc |-> "idle", tick |-> None, list |-> <<>>, detached |-> FALSE, i |-> 0,
     triggered |-> <<>>, j |-> 0, before |-> <<>>]

EmptyAlertLog ==
    [created |-> 0,        \* create_alert calls made
     copies |-> {},        \* <<copy, alert>>: dict copy was made of dict alert
     received |-> <<>>,    \* what each callback was called with, in order
     lastRemove |-> None]  \* the last remove_alert call

AlertsInit ==
    /\ alert_objs = <<>>
    /\ alerts = <<>>
    /\ alert_callbacks = <<>>
    /\ athread = [t \in AlertThreads |-> IdleAlertThread]
    /\ now = 0
    /\ alert_log = EmptyAlertLog

\* self.alert_callbacks.append(callback)
add_alert_callback(t) ==
    /\ athread[t].pc = "idle"
    /\ Len(alert_callbacks) < Len(AlertSubscribers)
    /\ alert_callbacks' = Append(alert_callbacks, AlertSubscribers[Len(alert_callbacks) + 1])
    /\ UNCHANGED <<alert_objs, alerts, athread, now, alert_log, ingestVars, laterVars, resampleVars>>

\* the dict create_alert builds
NewAlert(id, name, condition, symbol, threshold) ==
    [id |-> id, name |-> name, condition |-> condition, symbol |-> symbol,
     threshold |-> threshold, is_active |-> TRUE, triggered |-> FALSE, created_at |-> now]

create_alert(t) ==
    /\ athread[t].pc = "idle"
    /\ now < MaxAlertCalls
    /\ alert_log.created < MaxAlerts
    /\ \E condition \in Conditions, symbol \in Symbols, threshold \in Thresholds :
          alert_objs' = Append(alert_objs,
                               NewAlert(Len(alerts) + 1, "alert", condition, symbol, threshold))
    /\ alerts' = Append(alerts, Len(alert_objs) + 1)
    /\ now' = now + 1
    /\ alert_log' = [alert_log EXCEPT !.created = @ + 1]
    /\ UNCHANGED <<alert_callbacks, athread, ingestVars, laterVars, resampleVars>>

\* a remove_alert that also drops every triggered alert
KeepsUntriggered(alert, alert_id) == alert.id # alert_id /\ ~alert.triggered
\* alert['id'] != alert_id
Keeps(alert, alert_id) == alert.id # alert_id

\* the loops that run over the list object self.alerts named keep that object
Detach(f) == IF f.pc \in {"loop", "fire"} /\ ~f.detached
             THEN [f EXCEPT !.list = alerts, !.detached = TRUE]
             ELSE f

\* self.alerts = [alert for alert in self.alerts if alert['id'] != alert_id]
remove_alert(t) ==
    /\ athread[t].pc = "idle"
    /\ now < MaxAlertCalls
    /\ \E alert_id \in 1..MaxAlerts :
          /\ alerts' = SelectSeq(alerts, LAMBDA o : Keeps(alert_objs[o], alert_id))
          /\ alert_log' = [alert_log EXCEPT
                              !.lastRemove = [id |-> alert_id, before |-> alerts]]
    /\ athread' = [u \in AlertThreads |-> Detach(athread[u])]
    /\ now' = now + 1
    /\ UNCHANGED <<alert_objs, alert_callbacks, ingestVars, laterVars, resampleVars>>

\* the list the loop of frame f runs over
LoopList(f) == IF f.detached THEN f.list ELSE alerts

\* check_price_alert(tick_data): triggered = []; for alert in self.alerts
CallCheck(t) ==
    /\ athread[t].pc = "idle"
    /\ now < MaxAlertCalls
    /\ \E symbol \in Symbols, price \in TickPrices :
          athread' = [athread EXCEPT ![t] =
                         [IdleAlertThread EXCEPT !.pc = "loop",
                                                 !.tick = [symbol |-> symbol, price |-> price],
                                                 !.before = alert_objs]]
    /\ now' = now + 1
    /\ UNCHANGED <<alert_objs, alerts, alert_callbacks, alert_log, ingestVars, laterVars, resampleVars>>

\* a check that skips only the inactive alerts
SkipsInactive(alert) == ~alert.is_active
\* if not alert['is_active'] or alert['triggered']: continue
Skips(alert) == ~alert.is_active \/ alert.triggered

\* a comparison that also fires at the threshold
Reaches(alert, price) ==
    \/ alert.condition = "above" /\ price >= alert.threshold
    \/ alert.condition = "below" /\ price <= alert.threshold
\* condition == 'above' and price > threshold, or 'below' and price < threshold
Crosses(alert, price) ==
    \/ alert.condition = "above" /\ price > alert.threshold
    \/ alert.condition = "below" /\ price < alert.threshold

\* one turn of the loop up to the comparison: the alert is passed over, or the
\* thread goes on to mark it; the loop over, the thread goes on to notify
CheckExamine(t) ==
    LET f == athread[t]
        list == LoopList(f)
    IN
    /\ f.pc = "loop"
    /\ IF f.i < Len(list)
       THEN LET alert == alert_objs[list[f.i + 1]] IN
            IF ~Skips(alert) /\ alert.symbol = f.tick.symbol /\ Crosses(alert, f.tick.price)
            THEN athread' = [athread EXCEPT ![t].pc = "fire"]
            ELSE athread' = [athread EXCEPT ![t].i = @ + 1]
       ELSE athread' = [athread EXCEPT ![t].pc = "notify"]
    /\ UNCHANGED <<alert_objs, alerts, alert_callbacks, now, alert_log, ingestVars, laterVars,
                   resampleVars>>

\* alert['triggered'] = True; alert['triggered_at'] = ...; alert['triggered_price'] = price
Trigger(alert, price) ==
    With(With(With(alert, "triggered", TRUE), "triggered_at", now), "triggered_price", price)

\* a copy() that hands back the dict itself
SameDict(heap, o) == [heap |-> heap, ref |-> o]
\* alert.copy(): a new dict with the same items
Copy(heap, o) == [heap |-> Append(heap, heap[o]), ref |-> Len(heap) + 1]

\* the alert is marked and its copy appended to triggered
CheckFire(t) ==
    LET f == athread[t]
        o == LoopList(f)[f.i + 1]
        marked == [alert_objs EXCEPT ![o] = Trigger(@, f.tick.price)]
        copied == Copy(marked, o)
    IN
    /\ f.pc = "fire"
    /\ alert_objs' = copied.heap
    /\ athread' = [athread EXCEPT ![t].pc = "loop", ![t].i = @ + 1,
                                  ![t].triggered = Append(@, copied.ref)]
    /\ alert_log' = [alert_log EXCEPT !.copies = @ \cup {<<copied.ref, o>>}]
    /\ UNCHANGED <<alerts, alert_callbacks, now, ingestVars, laterVars, resampleVars>>

\* for callback in self.alert_callbacks: callback(alert)
Deliver(o) ==
    [k \in 1..Len(alert_callbacks) |->
        [callback |-> alert_callbacks[k], alert |-> o, seen |-> alert_objs[o]]]

\* for alert in triggered: the callbacks are called with it, in order; the
\* loop over, return triggered
CheckNotify(t) ==
    LET f == athread[t] IN
    /\ f.pc = "notify"
    /\ IF f.j < Len(f.triggered)
       THEN /\ alert_log' = [alert_log EXCEPT
                                !.received = @ \o Deliver(f.triggered[f.j + 1])]
            /\ athread' = [athread EXCEPT ![t].j = @ + 1]
       ELSE /\ athread' = [athread EXCEPT ![t] = IdleAlertThread]
            /\ UNCHANGED alert_log
    /\ UNCHANGED <<alert_objs, alerts, alert_callbacks, now, ingestVars, laterVars, resampleVars>>

check_price_alert(t) == CallCheck(t) \/ CheckExamine(t) \/ CheckFire(t) \/ CheckNotify(t)

\* create_alert returns the dict of the list: its caller switches the alert off
Deactivate(t) ==
    /\ athread[t].pc = "idle"
    /\ \E k \in 1..Len(alerts) :
          /\ alert_objs[alerts[k]].is_active
          /\ alert_objs' = [alert_objs EXCEPT ![alerts[k]].is_active = FALSE]
    /\ UNCHANGED <<alerts, alert_callbacks, athread, now, alert_log, ingestVars, laterVars,
                   resampleVars>>

\* a callback keeps the dict it was called with and writes to it
Acknowledge ==
    /\ \E n \in 1..Len(alert_log.received) :
          LET o == alert_log.received[n].alert IN
          /\ "acknowledged" \notin DOMAIN alert_objs[o]
          /\ alert_objs' = [alert_objs EXCEPT ![o] = With(@, "acknowledged", TRUE)]
    /\ UNCHANGED <<alerts, alert_callbacks, athread, now, alert_log, ingestVars, laterVars,
                   resampleVars>>

----------------------------------------------------------------------------
(* The standalone ingestor (ingestor.py): the websocket thread running      *)
(* on_message, and the daemon thread running batch_insert_ticks, sharing    *)
(* the list TICK_BUFFER under BUFFER_LOCK.  A tick is named by the number   *)
(* of the message it was built from.                                        *)

\* messages the socket delivers
MaxIngested == 3

\* the messages of the feed: the 'e' of the message and the 'e' of its
\* 'data' (the envelope of a combined stream), each a trade, another event
\* or absent, and whether trade_data = data.get('data', data) has the
\* fields of a trade
IngestorMessages ==
    [e : {"trade", "other", "absent"}, data : {"trade", "other", "absent"}, fields : BOOLEAN]

\* data.get('e') == 'trade' or data.get('data', {}).get('e') == 'trade'
IngestorIsTrade(data) == data.e = "trade" \/ data.data = "trade"

\* Tick(...) reads trade_data['T'], ['s'], ['p'] and ['q']: KeyError without them
TickRaises(data) == ~data.fields

IngestorInit ==
    [TICK_BUFFER |-> <<>>,
     BUFFER_LOCK |-> "free",
     feed |-> [pc |-> "idle", tick |-> 0],
     batch |-> [pc |-> "sleep", ticks_to_insert |-> <<>>],
     session |-> [new |-> <<>>, rows |-> <<>>],
     received |-> 0,
     appended |-> <<>>,
     handed |-> <<>>,
     outcomes |-> <<>>]

\* what the steps of the ingestor leave alone
ingestorRest == <<ingestVars, alertVars, resampleVars, series, ret, appVars>>

\* on_message up to the lock: a trade with its fields becomes a Tick, any
\* other message is dropped, silently or by the except branch
IngestorOnMessage ==
    /\ ingestor.feed.pc = "idle"
    /\ ingestor.received < MaxIngested
    /\ \E data \in IngestorMessages :
          IF IngestorIsTrade(data) /\ ~TickRaises(data)
          THEN ingestor' = [ingestor EXCEPT !.received = @ + 1,
                                            !.feed = [pc |-> "acquire", tick |-> ingestor.received + 1]]
          ELSE ingestor' = [ingestor EXCEPT !.received = @ + 1]
    /\ UNCHANGED ingestorRest

\* with BUFFER_LOCK: entered by the websocket thread
IngestorAcquire ==
    /\ ingestor.feed.pc = "acquire"
    /\ ingestor.BUFFER_LOCK = "free"
    /\ ingestor' = [ingestor EXCEPT !.BUFFER_LOCK = "feed", !.feed.pc = "append"]
    /\ UNCHANGED ingestorRest

\* TICK_BUFFER.append(tick), and the lock released
IngestorAppend ==
    /\ ingestor.feed.pc = "append"
    /\ ingestor' = [ingestor EXCEPT !.TICK_BUFFER = Append(@, ingestor.feed.tick),
                                    !.appended = Append(@, ingestor.feed.tick),
                                    !.BUFFER_LOCK = "free",
                                    !.feed = [pc |-> "idle", tick |-> 0]]
    /\ UNCHANGED ingestorRest

\* time.sleep(2); ticks_to_insert = []
BatchSleep ==
    /\ ingestor.batch.pc = "sleep"
    /\ ingestor' = [ingestor EXCEPT !.batch = [pc |-> "acquire", ticks_to_insert |-> <<>>]]
    /\ UNCHANGED ingestorRest

\* with BUFFER_LOCK: entered by the batch thread
BatchAcquire ==
    /\ ingestor.batch.pc = "acquire"
    /\ ingestor.BUFFER_LOCK = "free"
    /\ ingestor' = [ingestor EXCEPT !.BUFFER_LOCK = "batch", !.batch.pc = "swap"]
    /\ UNCHANGED ingestorRest

SameBuffer(TICK_BUFFER) == TICK_BUFFER
\* TICK_BUFFER = []: the global names a new, empty list
FreshBuffer(TICK_BUFFER) == <<>>

\* the swap under the lock, the lock released, and the test of the batch
BatchSwap ==
    /\ ingestor.batch.pc = "swap"
    /\ IF Len(ingestor.TICK_BUFFER) > 0
       THEN ingestor' = [ingestor EXCEPT !.batch = [pc |-> "add_all",
                                                    ticks_to_insert |-> ingestor.TICK_BUFFER],
                                         !.TICK_BUFFER = FreshBuffer(@),
                                         !.BUFFER_LOCK = "free"]
       ELSE ingestor' = [ingestor EXCEPT !.batch.pc = "sleep", !.BUFFER_LOCK = "free"]
    /\ UNCHANGED ingestorRest

\* session.add_all(ticks_to_insert): the ticks become pending in the session
BatchAddAll ==
    /\ ingestor.batch.pc = "add_all"
    /\ ingestor' = [ingestor EXCEPT !.session.new = @ \o ingestor.batch.ticks_to_insert,
                                    !.handed = Append(@, ingestor.batch.ticks_to_insert),
                                    !.batch.pc = "commit"]
    /\ UNCHANGED ingestorRest

\* session.commit(): the pending ticks become rows, or the commit raises
BatchCommit ==
    /\ ingestor.batch.pc = "commit"
    /\ \E outcome \in {"ok", "raised"} :
          IF outcome = "ok"
          THEN ingestor' = [ingestor EXCEPT !.session = [new |-> <<>>,
                                                         rows |-> @.rows \o @.new],
                                            !.outcomes = Append(@, outcome),
                                            !.batch.pc = "sleep"]
          ELSE ingestor' = [ingestor EXCEPT !.outcomes = Append(@, outcome),
                                            !.batch.pc = "except"]
    /\ UNCHANGED ingestorRest

\* except Exception: session.rollback() drops the pending ticks; the loop goes on
BatchRollback ==
    /\ ingestor.batch.pc = "except"
    /\ ingestor' = [ingestor EXCEPT !.session.new = <<>>, !.batch.pc = "sleep"]
    /\ UNCHANGED ingestorRest

\* the loop of the batch thread
batch_insert_ticks ==
    BatchSleep \/ BatchAcquire \/ BatchSwap \/ BatchAddAll \/ BatchCommit \/ BatchRollback

----------------------------------------------------------------------------
(* The globals of app.py (lines 440-442) and the threads of its request     *)
(* handlers, before any request.                                             *)

\* no handler is running on the thread
IdleHandler == [pc |-> "idle", op |-> "none", symbol |-> ""]
\* Config.DEFAULT_SYMBOLS, scaled down to one symbol
DefaultSymbols == {"btcusdt"}

LaterInit ==
    /\ series = <<>>
    /\ ret = None
    /\ active_symbols = DefaultSymbols
    /\ is_collecting = FALSE
    /\ handler = IdleHandler
    /\ hparked = IdleHandler
    /\ ingestor = IngestorInit

----------------------------------------------------------------------------
(* The request handlers handle_add_symbol, start_collection and             *)
(* stop_collection of app.py, each on the thread of its request             *)
(* (async_mode='threading').  A handler calls into data_ingestion on its    *)
(* own thread: it waits at "..._wait" while the steps of start_symbol,      *)
(* start or stop run in the caller's frame.  caller.n counts the requests.  *)

\* what the handlers leave alone
handlerRest ==
    <<ws_connections, buffer, buffer_lock, callbacks, db_ticks, conns, worker, drainer,
      parked, msgsLeft, nextId, alertVars, resampleVars, series, ret, hparked, ingestor>>

\* a request arrives at a thread that is running none
Accepts == handler.pc = "idle" /\ caller.pc = "idle" /\ caller.n + parked.n < MaxCalls

\* list(active_symbols): the symbols of the set, in any order
Lists(set) ==
    {list \in SymbolLists :
        Len(list) = Cardinality(set) /\ {list[k] : k \in 1..Len(list)} = set}

\* if symbol not in active_symbols: active_symbols.add(symbol)
handle_add_symbol ==
    /\ Accepts
    /\ \E symbol \in Symbols :
          IF symbol \notin active_symbols
          THEN /\ active_symbols' = active_symbols \cup {symbol}
               /\ handler' = [pc |-> "added", op |-> "add_symbol", symbol |-> symbol]
          ELSE UNCHANGED <<active_symbols, handler>>
    /\ caller' = [caller EXCEPT !.n = @ + 1, !.op = "none"]
    /\ UNCHANGED <<handlerRest, is_collecting, is_running, symbols, log>>

\* if is_collecting: data_ingestion.start_symbol(symbol)
AddSymbolStart ==
    /\ handler.pc = "added"
    /\ IF is_collecting
       THEN /\ caller' = [caller EXCEPT !.pc = "check", !.op = "start_symbol",
                                        !.sym = handler.symbol, !.todo = <<handler.symbol>>]
            /\ handler' = [handler EXCEPT !.pc = "add_wait"]
       ELSE /\ handler' = IdleHandler
            /\ UNCHANGED caller
    /\ UNCHANGED <<handlerRest, active_symbols, is_collecting, is_running, symbols, log>>

\* start_symbol has returned: emit('symbol_added', ...)
AddSymbolEmit ==
    /\ handler.pc = "add_wait"
    /\ caller.pc = "idle"
    /\ handler' = IdleHandler
    /\ UNCHANGED <<handlerRest, caller, active_symbols, is_collecting, is_running, symbols,
                   log>>

\* if not is_collecting
start_collection ==
    /\ Accepts
    /\ handler' = IF is_collecting THEN IdleHandler
                  ELSE [pc |-> "start_call", op |-> "start_collection", symbol |-> ""]
    /\ caller' = [caller EXCEPT !.n = @ + 1, !.op = "none"]
    /\ UNCHANGED <<handlerRest, active_symbols, is_collecting, is_running, symbols, log>>

\* data_ingestion.start(list(active_symbols)), up to its loop
StartCollectionCall ==
    /\ handler.pc = "start_call"
    /\ \E list \in Lists(active_symbols) :
          /\ caller' = [caller EXCEPT !.pc = "loop", !.op = "start", !.todo = list]
          /\ symbols' = list
    /\ is_running' = TRUE
    /\ handler' = [handler EXCEPT !.pc = "start_wait"]
    /\ UNCHANGED <<handlerRest, active_symbols, is_collecting, log>>

\* start() has returned: is_collecting = True
StartCollectionSet ==
    /\ handler.pc = "start_wait"
    /\ caller.pc = "idle"
    /\ is_collecting' = TRUE
    /\ handler' = IdleHandler
    /\ UNCHANGED <<handlerRest, caller, active_symbols, is_running, symbols, log>>

\* if is_collecting
stop_collection ==
    /\ Accepts
    /\ handler' = IF is_collecting
                  THEN [pc |-> "stop_call", op |-> "stop_collection", symbol |-> ""]
                  ELSE IdleHandler
    /\ caller' = [caller EXCEPT !.n = @ + 1, !.op = "none"]
    /\ UNCHANGED <<handlerRest, active_symbols, is_collecting, is_running, symbols, log>>

\* data_ingestion.stop(), up to its loop
StopCollectionCall ==
    /\ handler.pc = "stop_call"
    /\ caller' = [caller EXCEPT !.pc = "closing", !.op = "stop",
                                !.size = Len(ws_connections)]
    /\ is_running' = FALSE
    /\ log' = [log EXCEPT !.opened = {},
                          !.atStop = [tracked |-> ValueSet(ws_connections),
                                      second |-> log.lastCall # None /\ log.lastCall.op = "stop",
                                      before |-> SupState]]
    /\ handler' = [handler EXCEPT !.pc = "stop_wait"]
    /\ UNCHANGED <<handlerRest, active_symbols, is_collecting, symbols>>

\* stop() has returned: is_collecting = False; a RuntimeError of stop() leaves
\* the handler before the assignment
StopCollectionSet ==
    /\ handler.pc = "stop_wait"
    /\ caller.pc = "idle"
    /\ is_collecting' = IF caller.op = "raised" THEN is_collecting ELSE FALSE
    /\ handler' = IdleHandler
    /\ UNCHANGED <<handlerRest, caller, active_symbols, is_running, symbols, log>>

\* the interpreter switches between the threads of two requests
AppSwitch ==
    /\ <<caller, handler>> # <<parked, hparked>>
    /\ caller' = parked
    /\ parked' = caller
    /\ handler' = hparked
    /\ hparked' = handler
    /\ UNCHANGED <<alertVars, resampleVars, series, ret, active_symbols, is_collecting,
                   ws_connections, is_running, symbols, buffer, buffer_lock, callbacks,
                   db_ticks, conns, worker, drainer, msgsLeft, nextId, log, ingestor>>

----------------------------------------------------------------------------
(* Spec: the feed pipeline.  It starts in the state start(['btcusdt',      *)
(* 'ethusdt']) leaves behind once both connections are open.               *)

Init ==
    /\ ws_connections = <<[sym |-> "btcusdt", ws |-> 1], [sym |-> "ethusdt", ws |-> 2]>>
    /\ is_running = TRUE
    /\ symbols = <<"btcusdt", "ethusdt">>
    /\ buffer = <<>>
    /\ buffer_lock = {}
    /\ callbacks = <<>>
    /\ db_ticks = <<>>
    /\ conns = <<[sym |-> "btcusdt", state |-> "Connected"],
                 [sym |-> "ethusdt", state |-> "Connected"]>>
    /\ worker = <<IdleWorker, IdleWorker>>
    /\ drainer = IdleDrainer
    /\ caller = IdleCaller
    /\ msgsLeft = MaxMsgs
    /\ nextId = 1
    /\ log = EmptyLog
    /\ parked = IdleCaller
    /\ AlertsInit
    /\ df = <<>>
    /\ bars = None
    /\ LaterInit

Next ==
    \/ \E c \in DOMAIN conns : on_message(c)
    \/ get_recent_buffer
    \/ add_callback

Spec == Init /\ [][Next]_vars

----------------------------------------------------------------------------
(* SpecSup: the supervisor.  It starts in the state __init__ leaves behind;  *)
(* the feed delivers no message, so that the workers only connect and exit. *)

InitSup ==
    /\ ws_connections = <<>>
    /\ is_running = FALSE
    /\ symbols = <<>>
    /\ buffer = <<>>
    /\ buffer_lock = {}
    /\ callbacks = <<>>
    /\ db_ticks = <<>>
    /\ conns = <<>>
    /\ worker = <<>>
    /\ drainer = IdleDrainer
    /\ caller = IdleCaller
    /\ msgsLeft = 0
    /\ nextId = 1
    /\ log = EmptyLog
    /\ parked = IdleCaller
    /\ AlertsInit
    /\ df = <<>>
    /\ bars = None
    /\ LaterInit

NextSup ==
    \/ start_symbol
    \/ start
    \/ stop
    \/ \E c \in DOMAIN conns : run_forever(c)

SpecSup == InitSup /\ [][NextSup]_vars

\* the connections a behaviour can create
ConnIds == 1..(2 * MaxCalls)

\* SpecSupLive: SpecSup where a thread inside stop() goes on running, and the
\* transport honours close: a run_forever whose connection was closed returns.
SpecSupLive ==
    /\ SpecSup
    /\ WF_vars(StopLoop \/ StopClear)
    /\ \A c \in ConnIds : WF_vars(c \in DOMAIN conns /\ Exit(c))

----------------------------------------------------------------------------
(* SpecSupConc: two threads (a request handler each) call start,            *)
(* start_symbol and stop; the methods take no lock, so that the threads      *)
(* interleave between any two steps of the calls.  The transport is left    *)
(* out: a connection stays as start_symbol and stop() leave it.              *)

NextSupConc ==
    \/ start_symbol
    \/ start
    \/ stop
    \/ Switch

SpecSupConc == InitSup /\ [][NextSupConc]_vars

----------------------------------------------------------------------------
(* SpecAppConc: two request threads of app.py run handle_add_symbol,        *)
(* start_collection and stop_collection; neither the handlers nor the       *)
(* methods they call take a lock, so that the threads interleave between    *)
(* any two steps.  The transport is left out, as in SpecSupConc.            *)

NextAppConc ==
    \/ handle_add_symbol
    \/ AddSymbolStart
    \/ AddSymbolEmit
    \/ start_collection
    \/ StartCollectionCall
    \/ StartCollectionSet
    \/ stop_collection
    \/ StopCollectionCall
    \/ StopCollectionSet
    \/ StartLoop
    \/ StartSymbolCheck
    \/ StartSymbolOpen
    \/ StartSymbolInsert
    \/ StopLoop
    \/ StopClear
    \/ AppSwitch

SpecAppConc == InitSup /\ [][NextAppConc]_vars

----------------------------------------------------------------------------
(* SpecAlert: one thread calling the AlertService, one call after another,  *)
(* and the holders of its dicts writing to them.  The subscribers register  *)
(* before the first alert is created.                                        *)

NextAlert ==
    \/ \E t \in {RequestThread} :
          \/ now = 0 /\ add_alert_callback(t)
          \/ create_alert(t)
          \/ remove_alert(t)
          \/ check_price_alert(t)
          \/ Deactivate(t)
    \/ Acknowledge

SpecAlert == InitSup /\ [][NextAlert]_vars

----------------------------------------------------------------------------
(* SpecAlertConc: the feed threads call check_price_alert while the request *)
(* thread creates and removes alerts.  The class holds no lock, so the      *)
(* threads interleave between any two steps of the calls.                    *)

\* the state once both subscribers have registered
InitAlertConc ==
    /\ ws_connections = <<>>
    /\ is_running = FALSE
    /\ symbols = <<>>
    /\ buffer = <<>>
    /\ buffer_lock = {}
    /\ callbacks = <<>>
    /\ db_ticks = <<>>
    /\ conns = <<>>
    /\ worker = <<>>
    /\ drainer = IdleDrainer
    /\ caller = IdleCaller
    /\ msgsLeft = 0
    /\ nextId = 1
    /\ log = EmptyLog
    /\ parked = IdleCaller
    /\ alert_objs = <<>>
    /\ alerts = <<>>
    /\ alert_callbacks = AlertSubscribers
    /\ athread = [t \in AlertThreads |-> IdleAlertThread]
    /\ now = 0
    /\ alert_log = EmptyAlertLog
    /\ df = <<>>
    /\ bars = None
    /\ LaterInit

NextAlertConc ==
    \/ \E t \in FeedThreads : check_price_alert(t)
    \/ \E t \in {RequestThread} :
          \/ create_alert(t)
          \/ remove_alert(t)

SpecAlertConc == InitAlertConc /\ [][NextAlertConc]_vars

----------------------------------------------------------------------------
(* QuantitativeAnalytics.resample_ticks, in its two copies                   *)
(* (services/analytics.py and app.py).  A frame is a sequence of rows; a    *)
(* timestamp is a number of seconds since midnight.                          *)

\* len(df) < 5: not enough ticks to resample
MinTicks == 5
\* len(df) < 10: the path taken for a short frame
SmallInput == 10
\* rows of the frames handed to resample_ticks
MaxTicks == 10
\* how often the price changes, and how often ticks are far apart, in a frame
MaxMoves == 1
MaxGaps == 1

\* seconds from one tick to the next: in a row, or further apart than any bucket
Steps == {20, 130}
FarApart(step) == step > 120

\* the string head + last
Interval(head, last) == [head |-> head, last |-> last]
\* intervals in the notation of services/analytics.py; "1min" takes its else
\* branch, "s" has no number
AnalyticsIntervals ==
    {Interval("30", "s"), Interval("2", "m"), Interval("1mi", "n"), Interval("", "s")}
\* intervals app.py hands to pandas as they are
AppIntervals == {Interval("30", "s"), Interval("1mi", "n")}

\* int(interval[:-1]) raises ValueError unless the text is a number
IntRaises(text) == text \notin {"2", "30"}
ToInt(text) == CASE text = "2" -> 2 [] text = "30" -> 30

\* if interval.endswith('s') ... elif interval.endswith('m') ... else: the
\* rule string, as the seconds pandas reads it as
RuleRaises(interval) == interval.last \in {"s", "m"} /\ IntRaises(interval.head)
Rule(interval) ==
    IF interval.last = "s" THEN ToInt(interval.head)
    ELSE IF interval.last = "m" THEN 60 * ToInt(interval.head)
    ELSE 60

\* the seconds pandas reads the offset aliases '30s' and '1min' as
Freq(interval) ==
    CASE interval = Interval("30", "s") -> 30
      [] interval = Interval("1mi", "n") -> 60

\* the frame in the order the store of services/analytics.py returns it
Reverse(d) == [k \in 1..Len(d) |-> d[Len(d) - k + 1]]

\* resample() sorts a frame whose index is not increasing, with a stable sort
InsertByTime(sorted, row) ==
    LET before == SelectSeq(sorted, LAMBDA r : r.timestamp <= row.timestamp)
        after == SelectSeq(sorted, LAMBDA r : r.timestamp > row.timestamp)
    IN before \o <<row>> \o after
RECURSIVE SortValues(_)
SortValues(d) ==
    IF d = <<>> THEN <<>>
    ELSE InsertByTime(SortValues(SubSeq(d, 1, Len(d) - 1)), d[Len(d)])

\* the bins of resample(rule): from the bin of the first row to the bin of
\* the last, each closed on the left and labelled by its start
Floor(ts, w) == ts - (ts % w)
BinStarts(d, w) ==
    LET lo == Floor(d[1].timestamp, w)
        hi == Floor(d[Len(d)].timestamp, w)
    IN [k \in 1..((hi - lo) \div w + 1) |-> lo + (k - 1) * w]
InBin(d, left, w) ==
    SelectSeq(d, LAMBDA r : left <= r.timestamp /\ r.timestamp < left + w)
Column(d, name) == [k \in 1..Len(d) |-> d[k][name]]

\* the aggregations: of an empty bin they give NaN, and sum gives 0; NaN is a
\* number no price, size, timestamp or label is
NaN == 0 - 1
AggFirst(xs) == IF xs = <<>> THEN NaN ELSE xs[1]
AggLast(xs) == IF xs = <<>> THEN NaN ELSE xs[Len(xs)]
AggMax(xs) ==
    IF xs = <<>> THEN NaN
    ELSE CHOOSE x \in {xs[k] : k \in 1..Len(xs)} : \A k \in 1..Len(xs) : xs[k] <= x
AggMin(xs) ==
    IF xs = <<>> THEN NaN
    ELSE CHOOSE x \in {xs[k] : k \in 1..Len(xs)} : \A k \in 1..Len(xs) : xs[k] >= x
RECURSIVE AggSum(_)
AggSum(xs) == IF xs = <<>> THEN 0 ELSE xs[1] + AggSum(Tail(xs))

\* .agg({'open': 'first', 'high': 'max', 'low': 'min', 'close': 'last'})
AggDict(xs) ==
    [open |-> AggFirst(xs), high |-> AggMax(xs), low |-> AggMin(xs), close |-> AggLast(xs)]
\* .ohlc()
Ohlc(xs) ==
    [open |-> AggFirst(xs), high |-> AggMax(xs), low |-> AggMin(xs), close |-> AggLast(xs)]

\* a dropna() that keeps every row
KeepNa(rows) == rows
\* result.dropna(): the rows without a NaN
DropNa(rows) == SelectSeq(rows, LAMBDA r : \A c \in DOMAIN r : r[c] # NaN)

\* a test that only stops the empty frame
OnlyEmpty(d) == d = <<>>
\* a test that lets a frame of four rows through
TooFewBelowFour(d) == d = <<>> \/ Len(d) < MinTicks - 1
\* df.empty or len(df) < 5
TooFew(d) == d = <<>> \/ Len(d) < MinTicks

\* what resample_ticks returns: the rows of the frame, and whether it printed
\* "Resampling error"
Frame0 == [rows |-> <<>>, error |-> FALSE]
Failed == [rows |-> <<>>, error |-> TRUE]
Returned(rows) == [rows |-> rows, error |-> FALSE]

\* services/analytics.py, len(df) < 10: the aggregated prices and the summed
\* sizes are merged on timestamp, so the sum stays in a column named size;
\* the reset_index() after dropna() adds the row labels as a column index
SmallPath(d, w) ==
    LET starts == BinStarts(d, w)
        ohlc_df == [k \in DOMAIN starts |->
                       With(AggDict(Column(InBin(d, starts[k], w), "price")),
                            "timestamp", starts[k])]
        volume == [k \in DOMAIN starts |->
                      [timestamp |-> starts[k],
                       size |-> AggSum(Column(InBin(d, starts[k], w), "size"))]]
        merged == [k \in DOMAIN starts |->
                      With(With(ohlc_df[k], "size", volume[k].size), "index", k - 1)]
    IN DropNa(merged)

\* services/analytics.py and app.py, len(df) >= 10: ohlc(), and the summed
\* sizes as the column volume
GeneralPath(d, w) ==
    LET starts == BinStarts(d, w)
        result == [k \in DOMAIN starts |->
                      With(With(Ohlc(Column(InBin(d, starts[k], w), "price")),
                                "timestamp", starts[k]),
                           "volume", AggSum(Column(InBin(d, starts[k], w), "size")))]
    IN DropNa(result)

\* app.py, len(df) < 10: the last price of each bin as close, and the volume
AppSmallPath(d, w) ==
    LET starts == BinStarts(d, w)
        resampled == [k \in DOMAIN starts |->
                         [timestamp |-> starts[k],
                          close |-> AggLast(Column(InBin(d, starts[k], w), "price")),
                          volume |-> AggSum(Column(InBin(d, starts[k], w), "size"))]]
    IN DropNa(resampled)

\* resample_ticks of services/analytics.py
resample_ticks(d, interval) ==
    IF TooFew(d) THEN Frame0
    ELSE IF RuleRaises(interval) THEN Failed
    ELSE IF Len(d) < SmallInput
    THEN Returned(SmallPath(SortValues(d), Rule(interval)))
    ELSE Returned(GeneralPath(SortValues(d), Rule(interval)))

\* resample_ticks of app.py
app_resample_ticks(d, interval) ==
    IF TooFew(d) THEN Frame0
    ELSE IF Len(d) < SmallInput
    THEN Returned(AppSmallPath(SortValues(d), Freq(interval)))
    ELSE Returned(GeneralPath(SortValues(d), Freq(interval)))

\* the frames of the model: ticks 20 s apart or far apart, the price staying
\* or moving, the sizes going through 1, 2, 3
Moves(d) == Cardinality({k \in 2..Len(d) : d[k].price # d[k - 1].price})
Gaps(d) == Cardinality({k \in 2..Len(d) : FarApart(d[k].timestamp - d[k - 1].timestamp)})
NextTicks(d) ==
    {[timestamp |-> IF d = <<>> THEN 10 ELSE d[Len(d)].timestamp + step,
      price |-> price,
      size |-> 1 + (Len(d) % 3)] : step \in Steps, price \in TickPrices}

\* the store holds one more tick: a new frame is read from it
ReadFrame ==
    /\ Len(df) < MaxTicks
    /\ \E row \in NextTicks(df) :
          /\ Moves(Append(df, row)) <= MaxMoves
          /\ Gaps(Append(df, row)) <= MaxGaps
          /\ df = <<>> => row.timestamp = 10
          /\ df' = Append(df, row)
    /\ bars' = None
    /\ UNCHANGED <<ingestVars, laterVars, alertVars>>

\* analytics.resample_ticks(df, interval) on the frame, in either order
CallResample ==
    /\ bars = None
    /\ \E interval \in AnalyticsIntervals, order \in {"ascending", "descending"} :
          LET d == IF order = "ascending" THEN df ELSE Reverse(df) IN
          bars' = With(With(With(resample_ticks(d, interval), "by", "analytics"),
                            "interval", interval), "order", order)
    /\ UNCHANGED <<df, ingestVars, laterVars, alertVars>>

\* app.py's resample_ticks(df, timeframe) on the frame, which its store sorts
CallAppResample ==
    /\ bars = None
    /\ \E interval \in AppIntervals :
          bars' = With(With(With(app_resample_ticks(df, interval), "by", "app"),
                            "interval", interval), "order", "ascending")
    /\ UNCHANGED <<df, ingestVars, laterVars, alertVars>>

NextResample == ReadFrame \/ CallResample \/ CallAppResample

SpecResample == InitSup /\ [][NextResample]_vars

----------------------------------------------------------------------------
(* SpecRoundTrip: trade messages of one symbol are normalized, and the      *)
(* frame of their ticks is resampled.                                        *)

\* the trade messages of the feed: two event times a minute apart, two prices
RoundTripSymbol == "btcusdt"
EventTimes == {1500, 61000}
TradeMessages ==
    {TradeEvent(RoundTripSymbol, ms, p, "100") : ms \in EventTimes, p \in NumericStrings}

\* pd.to_datetime(df['timestamp']) reads the ISO string back; the rules of the
\* resampler are whole seconds, so the seconds of a timestamp decide its bin
ToDatetime(ts) == ts.sec

\* the row of the frame a tick becomes: SELECT timestamp, price, size
Row(tick) ==
    [timestamp |-> ToDatetime(tick.timestamp), price |-> tick.price, size |-> tick.size]

\* on_message normalizes a trade message and stores its tick; the frame of the
\* symbol has one more row
Feed ==
    /\ Len(df) < MaxMsgs
    /\ \E data \in TradeMessages :
          /\ ~NormalizeRaises(data)
          /\ df' = Append(df, Row(normalize_tick(data)))
    /\ bars' = None
    /\ UNCHANGED <<ingestVars, laterVars, alertVars>>

NextRoundTrip == Feed \/ CallResample \/ CallAppResample

SpecRoundTrip == InitSup /\ [][NextRoundTrip]_vars

----------------------------------------------------------------------------
(* The tick store (Database in database/models.py and in app.py).  The      *)
(* table is db_ticks; a timestamp is the ISO string of isoformat(), kept as *)
(* its seconds and microseconds.                                             *)

\* rows of the table in one behaviour of SpecStore, and the limits asked for
MaxRows == 3
MaxLimit == 2

\* the moments of the ticks saved in SpecStore
StoreTimes == {[sec |-> n, usec |-> 0] : n \in 1..3}

\* ISO strings of one format compare as their moments do
Earlier(a, b) == a.sec < b.sec \/ (a.sec = b.sec /\ a.usec < b.usec)

\* INSERT INTO ticks (symbol, timestamp, price, size): the row gets the next id
Inserted(rows, symbol, timestamp, price, size) ==
    Append(rows, [id |-> Len(rows) + 1, symbol |-> symbol, timestamp |-> timestamp,
                  price |-> price, size |-> size])

\* Database.save_tick
save_tick(symbol, timestamp, price, size) ==
    /\ db_ticks' = Inserted(db_ticks, symbol, timestamp, price, size)
    /\ ret' = None
    /\ UNCHANGED <<ws_connections, is_running, symbols, buffer, buffer_lock, callbacks,
                   conns, worker, drainer, caller, parked, msgsLeft, nextId, log,
                   alertVars, resampleVars, series, appVars, ingestor>>

\* WHERE symbol = ?
Where(rows, symbol) == SelectSeq(rows, LAMBDA r : r.symbol = symbol)

\* ORDER BY timestamp DESC: latest first; rows of one timestamp come in the
\* order the index idx_ticks_symbol_time is walked backwards, latest id first
InsertDesc(sorted, row) ==
    LET before == SelectSeq(sorted, LAMBDA r : Earlier(row.timestamp, r.timestamp))
        after == SelectSeq(sorted, LAMBDA r : ~Earlier(row.timestamp, r.timestamp))
    IN before \o <<row>> \o after
RECURSIVE OrderByDesc(_)
OrderByDesc(rows) ==
    IF rows = <<>> THEN <<>>
    ELSE InsertDesc(OrderByDesc(SubSeq(rows, 1, Len(rows) - 1)), rows[Len(rows)])

\* LIMIT ?
Limit(rows, n) == SubSeq(rows, 1, IF n < Len(rows) THEN n ELSE Len(rows))

\* SELECT timestamp, price, size
Columns(rows) ==
    [k \in 1..Len(rows) |->
        [timestamp |-> rows[k].timestamp, price |-> rows[k].price, size |-> rows[k].size]]

\* Database.get_recent_ticks of database/models.py: the frame as the query
\* returns it
get_recent_ticks(rows, symbol, limit) ==
    Columns(Limit(OrderByDesc(Where(rows, symbol)), limit))

\* df.sort_values(by='timestamp', ascending=True)
InsertAsc(sorted, row) ==
    LET before == SelectSeq(sorted, LAMBDA r : ~Earlier(row.timestamp, r.timestamp))
        after == SelectSeq(sorted, LAMBDA r : Earlier(row.timestamp, r.timestamp))
    IN before \o <<row>> \o after
RECURSIVE SortAsc(_)
SortAsc(frame) ==
    IF frame = <<>> THEN <<>>
    ELSE InsertAsc(SortAsc(SubSeq(frame, 1, Len(frame) - 1)), frame[Len(frame)])
sort_values(frame) == SortAsc(frame)

\* Database.get_recent_ticks of app.py: the same query, sorted back
app_get_recent_ticks(rows, symbol, limit) ==
    sort_values(Columns(Limit(OrderByDesc(Where(rows, symbol)), limit)))

\* what a call returned
Reply(call, by, args, value) == [call |-> call, by |-> by, args |-> args, value |-> value]

CallGetRecentTicks ==
    /\ ret = None
    /\ \E symbol \in Symbols, limit \in 1..MaxLimit :
          ret' = Reply("get_recent_ticks", "models", <<symbol, limit>>,
                       get_recent_ticks(db_ticks, symbol, limit))
    /\ UNCHANGED <<ingestVars, alertVars, resampleVars, series, appVars, ingestor>>

CallAppGetRecentTicks ==
    /\ ret = None
    /\ \E symbol \in Symbols, limit \in 1..MaxLimit :
          ret' = Reply("get_recent_ticks", "app", <<symbol, limit>>,
                       app_get_recent_ticks(db_ticks, symbol, limit))
    /\ UNCHANGED <<ingestVars, alertVars, resampleVars, series, appVars, ingestor>>

\* SpecStore: ticks are saved in any order of their timestamps, and read back
NextStore ==
    \/ /\ Len(db_ticks) < MaxRows
       /\ \E symbol \in Symbols, timestamp \in StoreTimes :
             save_tick(symbol, timestamp, 100 + Len(db_ticks), 1)
    \/ CallGetRecentTicks
    \/ CallAppGetRecentTicks

SpecStore == InitSup /\ [][NextStore]_vars

----------------------------------------------------------------------------
(* The numbers of the analytics.  A float is kept exactly: as the fraction  *)
(* n/d in lowest terms, or, where a square root was taken, as s * sqrt(q)   *)
(* with the sign s and the fraction q.                                       *)

Abs(x) == IF x < 0 THEN 0 - x ELSE x
Sign(x) == IF x < 0 THEN 0 - 1 ELSE IF x = 0 THEN 0 ELSE 1
RECURSIVE Gcd(_, _)
Gcd(a, b) == IF b = 0 THEN a ELSE Gcd(b, a % b)

Frac(n, d) ==
    LET g == Gcd(Abs(n), Abs(d)) IN
    [n |-> Sign(d) * (n \div g), d |-> Abs(d) \div g]
FInt(k) == Frac(k, 1)
FAdd(a, b) == Frac(a.n * b.d + b.n * a.d, a.d * b.d)
FSub(a, b) == Frac(a.n * b.d - b.n * a.d, a.d * b.d)
FMul(a, b) == Frac(a.n * b.n, a.d * b.d)
FDiv(a, b) == Frac(a.n * b.d, a.d * b.n)
FLess(a, b) == a.n * b.d < b.n * a.d
FZero == FInt(0)
FOne == FInt(1)

\* s * sqrt(q); a fraction is the root of its square
Surd(sgn, q) == [s |-> sgn, q |-> q]
AsSurd(x) == IF "q" \in DOMAIN x THEN x ELSE Surd(Sign(x.n), FMul(x, x))
\* two floats are the same number
NumEq(a, b) == AsSurd(a) = AsSurd(b)
\* float NaN
FNaN == [nan |-> TRUE]

\* np.sum, np.mean and np.std(ddof) of an array of fractions
RECURSIVE NpSum(_)
NpSum(xs) == IF xs = <<>> THEN FZero ELSE FAdd(xs[1], NpSum(Tail(xs)))
NpMean(xs) == FDiv(NpSum(xs), FInt(Len(xs)))
Variance(xs, ddof) ==
    LET m == NpMean(xs) IN
    FDiv(NpSum([k \in 1..Len(xs) |-> FMul(FSub(xs[k], m), FSub(xs[k], m))]),
         FInt(Len(xs) - ddof))
Sqrt(q) == Surd(Sign(q.n), q)
NpStd(xs) == Sqrt(Variance(xs, 0))
\* x / std
DivStd(x, std) == Surd(Sign(x.n), FDiv(FMul(x, x), std.q))

\* random.uniform(a, b): a + (b - a) * random(), for a draw u of random()
Draws == {Frac(0, 1), Frac(1, 2), Frac(3, 4)}
Uniform(a, b, u) == FAdd(a, FMul(FSub(b, a), u))

----------------------------------------------------------------------------
(* calculate_spread_zscore, in its two copies, and adf_test                 *)

\* points of a spread series, and the windows asked for
MaxSeries == 10
SeriesValues == {1, 2, 10}
Windows == {1, 3, 5, 20}

\* the last n values of an array: arr[-n:]
Trailing(xs, n) == SubSeq(xs, Len(xs) - n + 1, Len(xs))

\* the insufficient-data result of app.py, with its random z-score
RandomZscore(u) ==
    [current_zscore |-> Uniform(FInt(0 - 1), FInt(1), u), mean |-> FZero, std |-> FOne]

\* if len(spread_series) < window: window = len(spread_series)
EffectiveWindow(xs, window) == IF Len(xs) < window THEN Len(xs) ELSE window

\* calculate_spread_zscore of app.py (lines 295-335); u is the draw of
\* random.uniform
app_calculate_spread_zscore(xs, window, u) ==
    IF Len(xs) < 5 THEN RandomZscore(u)
    ELSE LET w == EffectiveWindow(xs, window) IN
         IF w < 2
         THEN [current_zscore |-> FZero, mean |-> NpMean(xs), std |-> NpStd(xs)]
         ELSE LET recent_spread == Trailing(xs, w)
                  mean == NpMean(recent_spread)
                  std == NpStd(recent_spread)
                  zscore == IF NumEq(std, FZero) THEN FZero
                            ELSE DivStd(FSub(xs[Len(xs)], mean), std)
              IN [current_zscore |-> zscore, mean |-> mean, std |-> std]

\* the insufficient-data result of services/analytics.py
ZeroZscore == [current_zscore |-> FZero, zscore_series |-> <<>>, mean |-> FZero, std |-> FZero]

\* Series.rolling(window).mean() and .std() at position k: NaN until the
\* window is full; std is the sample deviation, NaN for a window of one
RollingMean(xs, w, k) == IF k < w THEN FNaN ELSE NpMean(SubSeq(xs, k - w + 1, k))
RollingStd(xs, w, k) ==
    IF k < w \/ w < 2 THEN FNaN ELSE Sqrt(Variance(SubSeq(xs, k - w + 1, k), 1))
\* (spread_series - rolling_mean) / rolling_std at position k: NaN where
\* either is NaN and for 0 / 0
RollingZ(xs, w, k) ==
    LET m == RollingMean(xs, w, k)
        sd == RollingStd(xs, w, k)
    IN IF m = FNaN \/ sd = FNaN \/ NumEq(sd, FZero) THEN FNaN
       ELSE DivStd(FSub(xs[k], m), sd)
\* float(x) if not pd.isna(x) else 0
NaNToZero(x) == IF x = FNaN THEN FZero ELSE x

\* calculate_spread_zscore of services/analytics.py (lines 138-166)
calculate_spread_zscore(xs, window) ==
    IF Len(xs) < window \/ Len(xs) < 5 THEN ZeroZscore
    ELSE LET w == IF window < Len(xs) THEN window ELSE Len(xs)
             zscore == [k \in 1..Len(xs) |-> RollingZ(xs, w, k)]
         IN [current_zscore |-> NaNToZero(zscore[Len(xs)]),
             zscore_series |-> SelectSeq(zscore, LAMBDA z : z # FNaN),
             mean |-> NaNToZero(RollingMean(xs, w, Len(xs))),
             std |-> NaNToZero(RollingStd(xs, w, Len(xs)))]

\* the insufficient-data result of adf_test
AdfSentinel ==
    [test_statistic |-> FZero, p_value |-> FOne,
     critical_values |-> [one |-> FZero, five |-> FZero, ten |-> FZero],
     is_stationary |-> FALSE]

\* statsmodels' adfuller(x) is not part of the repository: it raises (on a
\* constant series, for one), or returns a statistic, a p-value and the
\* critical values at 1%, 5% and 10%
PValues == {Frac(1, 100), Frac(1, 20), Frac(1, 2)}
AdfullerOutcomes ==
    {[raised |-> TRUE]}
      \cup {[raised |-> FALSE, stat |-> FInt(0 - 3), p |-> p,
              crit |-> [one |-> Frac(0 - 7, 2), five |-> Frac(0 - 29, 10),
                        ten |-> Frac(0 - 13, 5)]] : p \in PValues}

\* pd.Series(series).dropna()
SeriesDropNa(xs) == SelectSeq(xs, LAMBDA x : x # FNaN)

\* result[1] <= 0.05
AtMostFivePercent(p) == ~FLess(Frac(1, 20), p)

\* adf_test of services/analytics.py (lines 168-202); outcome is what
\* adfuller does when it is called
adf_test(xs, outcome) ==
    IF Len(xs) < 10 THEN AdfSentinel
    ELSE IF Len(SeriesDropNa(xs)) < 10 THEN AdfSentinel
    ELSE IF outcome.raised THEN AdfSentinel
    ELSE [test_statistic |-> outcome.stat, p_value |-> outcome.p,
          critical_values |-> outcome.crit,
          is_stationary |-> AtMostFivePercent(outcome.p)]

\* the series of the model: at most MaxTurns changes of value
MaxTurns == 2
Turns(xs) == Cardinality({k \in 2..Len(xs) : xs[k] # xs[k - 1]})
HasNaN(xs) == \E k \in 1..Len(xs) : xs[k] = FNaN

\* the caller's series has one more point: a number, or a missing value
ReadSeries ==
    /\ Len(series) < MaxSeries
    /\ \E x \in {FInt(v) : v \in SeriesValues} \cup {FNaN} :
          /\ Turns(Append(series, x)) <= MaxTurns
          /\ series' = Append(series, x)
    /\ ret' = None
    /\ UNCHANGED <<ingestVars, alertVars, resampleVars, appVars, ingestor>>

CallAppZscore ==
    /\ ret = None
    /\ ~HasNaN(series)
    /\ \E window \in Windows, u \in Draws :
          ret' = Reply("calculate_spread_zscore", "app", <<window>>,
                       app_calculate_spread_zscore(series, window, u))
    /\ UNCHANGED <<ingestVars, alertVars, resampleVars, series, appVars, ingestor>>

CallZscore ==
    /\ ret = None
    /\ ~HasNaN(series)
    /\ \E window \in Windows :
          ret' = Reply("calculate_spread_zscore", "analytics", <<window>>,
                       calculate_spread_zscore(series, window))
    /\ UNCHANGED <<ingestVars, alertVars, resampleVars, series, appVars, ingestor>>

CallAdfTest ==
    /\ ret = None
    /\ \E outcome \in AdfullerOutcomes :
          ret' = Reply("adf_test", "analytics", <<>>, adf_test(series, outcome))
    /\ UNCHANGED <<ingestVars, alertVars, resampleVars, series, appVars, ingestor>>

NextSeries == ReadSeries \/ CallAppZscore \/ CallZscore \/ CallAdfTest

SpecSeries == InitSup /\ [][NextSeries]_vars

----------------------------------------------------------------------------
(* pairwise_regression, in its two copies (app.py lines 183-293 and         *)
(* services/analytics.py lines 85-136)                                       *)

\* the frame of the store, as resample_ticks reads it
ToFrame(frame) == [k \in 1..Len(frame) |-> Row(frame[k])]

\* pd.merge(left, right, on='timestamp', suffixes=('_1', '_2')): a column of
\* both frames gets the suffix of its side
Suffix(c, side) ==
    CASE c = "open" -> <<"open_1", "open_2">>[side]
      [] c = "high" -> <<"high_1", "high_2">>[side]
      [] c = "low" -> <<"low_1", "low_2">>[side]
      [] c = "close" -> <<"close_1", "close_2">>[side]
      [] c = "volume" -> <<"volume_1", "volume_2">>[side]
      [] c = "size" -> <<"size_1", "size_2">>[side]
      [] c = "index" -> <<"index_1", "index_2">>[side]
      [] c = "price" -> <<"price_1", "price_2">>[side]
MergedName(l, r, c, side) ==
    IF c \in DOMAIN l /\ c \in DOMAIN r THEN Suffix(c, side) ELSE c
MergeRow(l, r) ==
    LET lcols == (DOMAIN l) \ {"timestamp"}
        rcols == (DOMAIN r) \ {"timestamp"}
        lnames == {MergedName(l, r, c, 1) : c \in lcols}
        rnames == {MergedName(l, r, c, 2) : c \in rcols}
    IN [x \in {"timestamp"} \cup lnames \cup rnames |->
           IF x = "timestamp" THEN l.timestamp
           ELSE IF x \in lnames THEN l[CHOOSE c \in lcols : MergedName(l, r, c, 1) = x]
           ELSE r[CHOOSE c \in rcols : MergedName(l, r, c, 2) = x]]
\* the inner join: the rows of left whose timestamp right has, in left's order
\* (a timestamp occurs once in each frame)
Merge(left, right) ==
    LET matched == SelectSeq(left, LAMBDA l :
                       \E k \in 1..Len(right) : right[k].timestamp = l.timestamp)
    IN [k \in 1..Len(matched) |->
           MergeRow(matched[k],
                    right[CHOOSE n \in 1..Len(right) :
                              right[n].timestamp = matched[k].timestamp])]
\* merged.columns
ColumnsOf(frame) == IF frame = <<>> THEN {} ELSE DOMAIN frame[1]
\* merged[name].values, as floats
ValuesOf(frame, name) == [k \in 1..Len(frame) |-> FInt(frame[k][name])]

\* the results app.py returns instead of a regression
LowConfidence ==
    [hedge_ratio |-> Frac(6, 5), r_squared |-> Frac(3, 4), current_spread |-> Frac(1, 2),
     spread_mean |-> FZero, spread_std |-> FOne]
Degenerate ==
    [hedge_ratio |-> FOne, r_squared |-> Frac(1, 2), current_spread |-> FZero,
     spread_mean |-> FZero, spread_std |-> FOne]
\* the demo data of lines 190-196, for three draws of random.uniform
Demo(rnd) ==
    [hedge_ratio |-> FAdd(Frac(6, 5), Uniform(Frac(0 - 1, 10), Frac(1, 10), rnd[1])),
     r_squared |-> FAdd(Frac(3, 4), Uniform(Frac(0 - 1, 10), Frac(1, 10), rnd[2])),
     current_spread |-> Uniform(FInt(0 - 10), FInt(10), rnd[3]),
     spread_mean |-> FZero, spread_std |-> FInt(5)]

\* the sums of the closed-form regression
Products(X, y) == [k \in 1..Len(X) |-> FMul(X[k], y[k])]
Denominator(X) ==
    FSub(FMul(FInt(Len(X)), NpSum(Products(X, X))), FMul(NpSum(X), NpSum(X)))
Slope(X, y) ==
    FDiv(FSub(FMul(FInt(Len(X)), NpSum(Products(X, y))), FMul(NpSum(X), NpSum(y))),
         Denominator(X))
Intercept(X, y) == FDiv(FSub(NpSum(y), FMul(Slope(X, y), NpSum(X))), FInt(Len(X)))
\* r_squared = 1 - ss_res / ss_tot, with what the copy returns when ss_tot is 0
RSquared(X, y, whenFlat) ==
    LET slope == Slope(X, y)
        intercept == Intercept(X, y)
        residual == [k \in 1..Len(X) |-> FSub(y[k], FAdd(FMul(slope, X[k]), intercept))]
        centred == [k \in 1..Len(X) |-> FSub(y[k], NpMean(y))]
        ss_res == NpSum(Products(residual, residual))
        ss_tot == NpSum(Products(centred, centred))
    IN IF ss_tot = FZero THEN whenFlat ELSE FSub(FOne, FDiv(ss_res, ss_tot))
Spread(X, y, slope) == [k \in 1..Len(X) |-> FSub(y[k], FMul(slope, X[k]))]

\* if denominator == 0
IsFlat(X) == Denominator(X) = FZero

\* lines 248-283 of app.py: the regression of y on X
Regression(X, y) ==
    IF IsFlat(X) THEN Degenerate
    ELSE LET slope == Slope(X, y)
             spread == Spread(X, y, slope)
         IN [hedge_ratio |-> slope,
             intercept |-> Intercept(X, y),
             r_squared |-> RSquared(X, y, FZero),
             spread_mean |-> NpMean(spread),
             spread_std |-> NpStd(spread),
             current_spread |-> spread[Len(spread)]]

\* price_col = 'close_n' if 'close_n' in merged.columns else 'price_n'
PriceCol(merged, side) ==
    IF Suffix("close", side) \in ColumnsOf(merged) THEN Suffix("close", side)
    ELSE Suffix("price", side)

\* pairwise_regression of app.py: rows is the table, db_ok whether the store
\* answered, rnd the draws of random.uniform
app_pairwise_regression(rows, symbol1, symbol2, timeframe, db_ok, rnd) ==
    IF ~db_ok THEN LowConfidence
    ELSE
    LET df1 == app_get_recent_ticks(rows, symbol1, 200)
        df2 == app_get_recent_ticks(rows, symbol2, 200)
    IN
    IF df1 = <<>> \/ df2 = <<>> \/ Len(df1) < 5 \/ Len(df2) < 5 THEN Demo(rnd)
    ELSE
    LET df1_resampled == app_resample_ticks(ToFrame(df1), timeframe).rows
        df2_resampled == app_resample_ticks(ToFrame(df2), timeframe).rows
    IN
    IF df1_resampled = <<>> \/ df2_resampled = <<>> THEN LowConfidence
    ELSE
    LET merged == Merge(df1_resampled, df2_resampled) IN
    IF Len(merged) < 3 THEN LowConfidence
    ELSE IF PriceCol(merged, 1) \notin ColumnsOf(merged)
            \/ PriceCol(merged, 2) \notin ColumnsOf(merged) THEN LowConfidence
    ELSE IF Len(merged) < 2 THEN LowConfidence
    ELSE Regression(ValuesOf(merged, PriceCol(merged, 1)),
                    ValuesOf(merged, PriceCol(merged, 2)))

\* model.f_pvalue of statsmodels: not computed here
FPValue == [of |-> "f_pvalue"]

\* sm.add_constant(X) leaves a constant X without an intercept column (a
\* price is never 0); the fit then has one parameter and X[:, 1] raises
\* IndexError
AddConstantSkips(X) == IsFlat(X)

\* lines 109-132 of services/analytics.py: sm.OLS(y, X).fit()
Ols(X, y) ==
    LET slope == Slope(X, y)
        spread == Spread(X, y, slope)
    IN [hedge_ratio |-> slope,
        intercept |-> Intercept(X, y),
        r_squared |-> RSquared(X, y, FNaN),
        p_value |-> FPValue,
        spread_mean |-> NpMean(spread),
        spread_std |-> NpStd(spread),
        current_spread |-> spread[Len(spread)]]

\* pairwise_regression of services/analytics.py
pairwise_regression(rows, symbol1, symbol2, timeframe, db_ok) ==
    IF ~db_ok THEN None
    ELSE
    LET df1 == get_recent_ticks(rows, symbol1, 500)
        df2 == get_recent_ticks(rows, symbol2, 500)
    IN
    IF df1 = <<>> \/ df2 = <<>> \/ Len(df1) < 10 \/ Len(df2) < 10 THEN None
    ELSE
    LET df1_resampled == resample_ticks(ToFrame(df1), timeframe).rows
        df2_resampled == resample_ticks(ToFrame(df2), timeframe).rows
    IN
    IF df1_resampled = <<>> \/ df2_resampled = <<>> THEN None
    ELSE
    LET merged == Merge(df1_resampled, df2_resampled) IN
    IF Len(merged) < 5 THEN None
    ELSE IF "close_1" \notin ColumnsOf(merged) \/ "close_2" \notin ColumnsOf(merged) THEN None
    ELSE LET X == ValuesOf(merged, "close_1")
             y == ValuesOf(merged, "close_2")
         IN IF AddConstantSkips(X) THEN None ELSE Ols(X, y)

----------------------------------------------------------------------------
(* rolling_correlation, in its two copies, and the handler                  *)
(* calculate_analytics of app.py                                             *)

\* the result of services/analytics.py for too few joined points
ZeroCorrelation ==
    [current_correlation |-> FZero, correlation_series |-> <<>>, mean_correlation |-> FZero]

\* the sum of the products of the distances from the means
CoMoment(xs, ys) ==
    NpSum([k \in 1..Len(xs) |->
              FMul(FSub(xs[k], NpMean(xs)), FSub(ys[k], NpMean(ys)))])
\* Pearson's correlation of two windows: NaN when one of them is constant
Pearson(xs, ys) ==
    LET sxy == CoMoment(xs, ys)
        sxx == CoMoment(xs, xs)
        syy == CoMoment(ys, ys)
    IN IF sxx = FZero \/ syy = FZero THEN FNaN
       ELSE Surd(Sign(sxy.n), FDiv(FMul(sxy, sxy), FMul(sxx, syy)))
\* close_1.rolling(window=w).corr(close_2) at position k
RollingCorr(xs, ys, w, k) ==
    IF k < w \/ w < 2 THEN FNaN
    ELSE Pearson(SubSeq(xs, k - w + 1, k), SubSeq(ys, k - w + 1, k))
\* corr.mean(): the mean of the values that are not NaN, kept as the values
\* it is the mean of unless they are all the same
MeanOf(values) ==
    IF values = <<>> THEN FNaN
    ELSE IF \A k \in 1..Len(values) : values[k] = values[1] THEN values[1]
    ELSE [mean_of |-> values]

\* rolling_correlation of services/analytics.py (lines 204-240)
rolling_correlation(rows, symbol1, symbol2, window, timeframe, db_ok) ==
    IF ~db_ok THEN ZeroCorrelation
    ELSE
    LET df1 == get_recent_ticks(rows, symbol1, 500)
        df2 == get_recent_ticks(rows, symbol2, 500)
    IN
    IF df1 = <<>> \/ df2 = <<>> THEN None
    ELSE
    LET df1_resampled == resample_ticks(ToFrame(df1), timeframe).rows
        df2_resampled == resample_ticks(ToFrame(df2), timeframe).rows
    IN
    IF df1_resampled = <<>> \/ df2_resampled = <<>> THEN None
    ELSE
    LET merged == Merge(df1_resampled, df2_resampled) IN
    IF Len(merged) < window \/ "close_1" \notin ColumnsOf(merged)
          \/ "close_2" \notin ColumnsOf(merged)
    THEN ZeroCorrelation
    ELSE LET w == IF window < Len(merged) THEN window ELSE Len(merged)
             xs == ValuesOf(merged, "close_1")
             ys == ValuesOf(merged, "close_2")
             corr == [k \in 1..Len(merged) |-> RollingCorr(xs, ys, w, k)]
             valid == SelectSeq(corr, LAMBDA c : c # FNaN)
         IN [current_correlation |-> NaNToZero(corr[Len(corr)]),
             correlation_series |-> valid,
             mean_correlation |-> NaNToZero(MeanOf(valid))]

\* rolling_correlation of app.py (lines 337-348): made-up values
app_rolling_correlation(u) ==
    [current_correlation |-> FAdd(Frac(7, 10), Uniform(Frac(0 - 1, 5), Frac(1, 5), u)),
     mean_correlation |-> Frac(7, 10)]

\* the draws of random.uniform during one request, in the order they are made
RandomStreams ==
    {<<Frac(0, 1), Frac(1, 2), Frac(3, 4), Frac(0, 1), Frac(1, 2), Frac(3, 4), Frac(0, 1)>>,
     <<Frac(1, 2), Frac(1, 2), Frac(1, 2), Frac(1, 2), Frac(1, 2), Frac(1, 2), Frac(1, 2)>>}
\* np.random.normal(0, 1, 50), scaled down to ten values
NormalSample ==
    <<FInt(0), FInt(1), FInt(0 - 1), FInt(0), FInt(2), FInt(0 - 1), FInt(0), FInt(1),
      FInt(0 - 2), FInt(0)>>

\* the JSON body of a request, and a request without one
Body(symbol1, symbol2, timeframe, window_size) ==
    [symbol1 |-> symbol1, symbol2 |-> symbol2, timeframe |-> timeframe,
     window_size |-> window_size]

\* the response of the except branch (lines 546-557)
ErrorResponse ==
    [success |-> FALSE,
     hedge_ratio |-> Frac(6, 5),
     r_squared |-> Frac(3, 4),
     spread |-> [current_spread |-> Frac(3, 10), mean |-> FZero, std |-> FOne],
     zscore |-> [current_zscore |-> Frac(3, 10)],
     adf |-> [test_statistic |-> Frac(0 - 14, 5), p_value |-> Frac(1, 20),
              is_stationary |-> TRUE],
     correlation |-> [current_correlation |-> Frac(7, 10)]]

\* the spread series of lines 506-518: price_2 - hedge_ratio * price_1 over the
\* ticks of the two symbols that share a timestamp, or the random sample
SpreadSeries(rows, symbol1, symbol2, hedge_ratio) ==
    LET df1 == app_get_recent_ticks(rows, symbol1, 200)
        df2 == app_get_recent_ticks(rows, symbol2, 200)
        merged == IF df1 # <<>> /\ df2 # <<>> THEN Merge(df1, df2) ELSE <<>>
        spread_series ==
            IF merged # <<>> /\ "price_1" \in ColumnsOf(merged)
                  /\ "price_2" \in ColumnsOf(merged)
            THEN [k \in 1..Len(merged) |->
                     FSub(FInt(merged[k].price_2), FMul(hedge_ratio, FInt(merged[k].price_1)))]
            ELSE <<>>
    IN IF Len(spread_series) = 0 THEN NormalSample ELSE spread_series

\* regression_result.get(key, default)
Get(obj, key, default) == IF key \in DOMAIN obj THEN obj[key] ELSE default

\* calculate_analytics of app.py (lines 491-557); the response, and beside it
\* the spread series the handler computed
calculate_analytics(rows, body, rnd) ==
    IF body = None THEN [response |-> ErrorResponse, spread_series |-> None]
    ELSE
    LET regression_result ==
            app_pairwise_regression(rows, body.symbol1, body.symbol2, body.timeframe,
                                    TRUE, SubSeq(rnd, 1, 3))
        spread_series ==
            SpreadSeries(rows, body.symbol1, body.symbol2,
                         Get(regression_result, "hedge_ratio", FOne))
        zscore_result == app_calculate_spread_zscore(spread_series, body.window_size, rnd[4])
        correlation_result == app_rolling_correlation(rnd[5])
    IN
    [response |->
        [success |-> TRUE,
         hedge_ratio |-> Get(regression_result, "hedge_ratio", Frac(6, 5)),
         r_squared |-> Get(regression_result, "r_squared", Frac(3, 4)),
         spread |-> [current_spread |-> Get(regression_result, "current_spread", Frac(1, 2)),
                     mean |-> Get(regression_result, "spread_mean", FZero),
                     std |-> Get(regression_result, "spread_std", FOne)],
         zscore |-> zscore_result,
         adf |-> [test_statistic |->
                      FAdd(Frac(0 - 16, 5), Uniform(Frac(0 - 1, 2), Frac(1, 2), rnd[6])),
                  p_value |->
                      FAdd(Frac(1, 50), Uniform(Frac(0 - 1, 100), Frac(1, 100), rnd[7])),
                  is_stationary |-> TRUE],
         correlation |-> correlation_result],
     spread_series |-> spread_series]

----------------------------------------------------------------------------
(* SpecAnalytics: ticks of two symbols are saved, symbol by symbol and     *)
(* 20 s apart for each symbol, and the analytics are called on the store.   *)

\* the price the ticks of a symbol start at
FirstPrice(symbol) == ParseDecimal(PriceOf(symbol))
OtherPrice(price) == IF price = 100 THEN 101 ELSE 100
\* the next tick of a symbol: 20 s after its last and at the same price; the
\* second tick may be at the other price
NextPrices(stored) ==
    IF stored = <<>> THEN {}
    ELSE IF Len(stored) = 1
    THEN {stored[1].price, OtherPrice(stored[1].price)}
    ELSE {stored[Len(stored)].price}

StoreTick ==
    \E symbol \in Symbols :
        LET stored == Where(db_ticks, symbol) IN
        /\ Len(stored) < MaxTicks
        /\ symbol = "btcusdt" => Where(db_ticks, "ethusdt") = <<>>
        /\ \E price \in (IF stored = <<>> THEN {FirstPrice(symbol)} ELSE NextPrices(stored)) :
              save_tick(symbol, [sec |-> 10 + 20 * Len(stored), usec |-> 0], price, 1)

\* the requests of the model; db_ok says whether the store answered the
\* reads of the call, and is kept beside what the call returned
Pair == <<"btcusdt", "ethusdt">>
RequestWindows == {3, 20}
DbOutcomes == {TRUE, FALSE}

CallAppPairwiseRegression ==
    /\ ret = None
    /\ \E timeframe \in AppIntervals, db_ok \in DbOutcomes, rnd \in RandomStreams :
          ret' = With(Reply("pairwise_regression", "app", <<Pair[1], Pair[2], timeframe>>,
                            app_pairwise_regression(db_ticks, Pair[1], Pair[2], timeframe,
                                                    db_ok, rnd)),
                      "db_ok", db_ok)
    /\ UNCHANGED <<ingestVars, alertVars, resampleVars, series, appVars, ingestor>>

CallPairwiseRegression ==
    /\ ret = None
    /\ \E timeframe \in AppIntervals, db_ok \in DbOutcomes :
          ret' = With(Reply("pairwise_regression", "analytics",
                            <<Pair[1], Pair[2], timeframe>>,
                            pairwise_regression(db_ticks, Pair[1], Pair[2], timeframe,
                                                db_ok)),
                      "db_ok", db_ok)
    /\ UNCHANGED <<ingestVars, alertVars, resampleVars, series, appVars, ingestor>>

CallAppRollingCorrelation ==
    /\ ret = None
    /\ \E timeframe \in AppIntervals, window \in RequestWindows, rnd \in RandomStreams :
          ret' = With(Reply("rolling_correlation", "app",
                            <<Pair[1], Pair[2], window, timeframe>>,
                            app_rolling_correlation(rnd[1])),
                      "db_ok", TRUE)
    /\ UNCHANGED <<ingestVars, alertVars, resampleVars, series, appVars, ingestor>>

CallRollingCorrelation ==
    /\ ret = None
    /\ \E timeframe \in AppIntervals, window \in RequestWindows, db_ok \in DbOutcomes :
          ret' = With(Reply("rolling_correlation", "analytics",
                            <<Pair[1], Pair[2], window, timeframe>>,
                            rolling_correlation(db_ticks, Pair[1], Pair[2], window,
                                                timeframe, db_ok)),
                      "db_ok", db_ok)
    /\ UNCHANGED <<ingestVars, alertVars, resampleVars, series, appVars, ingestor>>

\* the bodies of the requests, and a request without one
Bodies ==
    {None} \cup {Body(Pair[1], Pair[2], timeframe, window) :
                    timeframe \in AppIntervals, window \in RequestWindows}
\* the response to a request, with the spread series it was made for
Responded(body, out) ==
    With(Reply("calculate_analytics", "app", <<body>>, out.response),
         "spread_series", out.spread_series)

CallCalculateAnalytics ==
    /\ ret = None
    /\ \E body \in Bodies, rnd \in RandomStreams :
          ret' = Responded(body, calculate_analytics(db_ticks, body, rnd))
    /\ UNCHANGED <<ingestVars, alertVars, resampleVars, series, appVars, ingestor>>

NextAnalytics ==
    \/ StoreTick
    \/ CallAppPairwiseRegression
    \/ CallPairwiseRegression
    \/ CallAppRollingCorrelation
    \/ CallRollingCorrelation
    \/ CallCalculateAnalytics

SpecAnalytics == InitSup /\ [][NextAnalytics]_vars

----------------------------------------------------------------------------
(* Properties of the buffer (Spec) *)

Min(a, b) == IF a < b THEN a ELSE b
LastN(seq, n) == SubSeq(seq, Len(seq) - n + 1, Len(seq))
Range(seq) == {seq[k] : k \in 1..Len(seq)}
Workers == DOMAIN worker

\* C1: whenever no thread holds the buffer lock the buffer has at most Capacity
\* entries, and the step that ends an append's critical section leaves the
\* appended tick last in the buffer, having removed exactly the oldest entry
\* if the buffer had grown past Capacity.
C1_BufferBounded ==
    /\ [](buffer_lock = {} => Len(buffer) <= Capacity)
    /\ [][\A c \in Workers :
            (worker[c].pc = "trim" /\ worker'[c].pc # "trim") =>
               /\ Len(buffer') <= Capacity
               /\ buffer' # <<>>
               /\ buffer'[Len(buffer')] = worker[c].tick
               /\ (Len(buffer) > Capacity => buffer' = Tail(buffer))
               /\ (Len(buffer) <= Capacity => buffer' = buffer)]_vars

C1_Witness ==
    /\ buffer_lock = {}
    /\ Len(buffer) = Capacity
    /\ log.evicted # {}

\* C2: after N appends since the buffer was last empty by a clear (or by
\* construction), outside the critical sections, the buffer holds exactly the
\* last min(N, Capacity) appended ticks in append order.
C2_LastAppended ==
    buffer_lock = {} =>
        /\ Len(buffer) = Min(Len(log.sinceClear), Capacity)
        /\ IdSeq(buffer) = LastN(log.sinceClear, Min(Len(log.sinceClear), Capacity))

C2_Witness ==
    /\ buffer_lock = {}
    /\ Len(log.sinceClear) > Capacity
    /\ Len(buffer) = Capacity

\* C3: no tick is returned by more than one clearing drain, and every tick
\* that was appended and not evicted by overflow is either still in the
\* buffer or was returned by a clearing drain, never both and never neither.
C3_DrainAtomic ==
    \A id \in 1..(nextId - 1) :
        /\ Count(log.returned, id) <= 1
        /\ (id \in log.appended \ log.evicted) =>
              ((id \in Ids(buffer)) # (id \in Range(log.returned)))
        /\ (id \in log.evicted) => id \notin Ids(buffer) /\ id \notin Range(log.returned)

\* a clearing drain holds the lock with a snapshot taken, a worker waits to
\* append, and an earlier clearing drain has returned ticks
C3_Witness ==
    /\ drainer.pc = "copied" /\ drainer.clear /\ drainer.copy # <<>>
    /\ \E c \in Workers : worker[c].pc = "lock"
    /\ log.returned # <<>>

----------------------------------------------------------------------------
(* Properties of on_message (Spec) *)

\* C7: a tick is in the store before it is appended to the buffer, it is
\* appended before any callback is invoked for it, and the callbacks invoked
\* for it are an initial segment of self.callbacks, in registration order.
C7_SaveAppendNotify ==
    /\ log.appended \subseteq Ids(db_ticks)
    /\ log.notified \subseteq log.appended
    /\ \A c \in Workers :
          LET w == worker[c] IN
          /\ w.pc \in {"lock", "trim", "callbacks"} => w.id \in Ids(db_ticks) /\ w.save = "ok"
          /\ w.pc = "callbacks" => w.id \in log.appended
          /\ w.pc \in {"save", "lock", "trim"} => w.id \notin log.notified /\ w.called = <<>>
          /\ w.pc = "save" => w.id \notin log.appended
          /\ Len(w.called) <= Len(callbacks)
          /\ w.called = SubSeq(callbacks, 1, Len(w.called))

C7_Witness ==
    \E c \in Workers :
        /\ worker[c].pc = "callbacks"
        /\ Len(worker[c].called) = 2
        /\ worker[c].id \in Ids(db_ticks)
        /\ worker[c].id \in log.appended

\* C8: a tick whose save_tick raised is still appended to the buffer and
\* handed to the registered callbacks.
C8_SaveFailureStillDelivers ==
    \A c \in Workers :
        (worker[c].pc = "recv" /\ worker[c].save = "raised") =>
            /\ worker[c].error
            /\ worker[c].id \in log.appended
            /\ (callbacks # <<>> => worker[c].id \in log.notified)

C10_NonTradeIgnored ==
    [][\A c \in Workers :
          (worker'[c] # worker[c] /\ worker'[c].class = "nontrade") =>
             /\ UNCHANGED <<db_ticks, buffer, callbacks, log, nextId>>
             /\ worker'[c].pc = "recv"
             /\ ~worker'[c].error
             /\ worker'[c].id = 0 /\ worker'[c].save = "none"]_vars

C10_Witness ==
    \E c \in Workers :
        /\ worker[c].class = "nontrade" /\ worker[c].pc = "recv"
        /\ db_ticks # <<>> /\ buffer # <<>>

----------------------------------------------------------------------------
(* Properties of the supervisor (SpecSup) *)

LastCallWas(op) == caller.pc = "idle" /\ log.lastCall # None /\ log.lastCall.op = op
TrackedSymbols == {ws_connections[k].sym : k \in 1..Len(ws_connections)}

\* C4: between two stop() calls at most one connection is opened per symbol,
\* and when start(symbols) has returned every symbol of the list is tracked.
C4_OneConnectionPerSymbol ==
    /\ \A s \in Symbols : Cardinality({c \in log.opened : conns[c].sym = s}) <= 1
    /\ LastCallWas("start") =>
          \A k \in 1..Len(log.lastCall.arg) : log.lastCall.arg[k] \in TrackedSymbols

\* start(list) then start_symbol of a symbol of the list: one connection
C4_Witness ==
    /\ LastCallWas("start_symbol")
    /\ caller.n = 2
    /\ is_running
    /\ Len(conns) = 1
    /\ log.lastCall.arg \in TrackedSymbols

\* C5: when stop() has returned the map is empty and close() was called on
\* every connection that was tracked when it was called; and a stop() called
\* right after a stop() calls close() on nothing and leaves the supervisor's
\* state as it found it.
C5_StopClosesAll ==
    LastCallWas("stop") =>
        /\ ws_connections = <<>>
        /\ ~is_running
        /\ \A c \in log.atStop.tracked : c \in Range(log.closed) /\ conns[c].state = "Closed"
        /\ log.atStop.second => SupState = log.atStop.before

C5_Witness ==
    /\ LastCallWas("stop")
    /\ log.atStop.second
    /\ log.closed # <<>>

\* C6: a connection's state only moves forward through Connecting, Connected,
\* Closed; a worker whose run_forever has returned leaves its connection
\* Closed; and a connection is created only by the step of start_symbol that
\* builds the WebSocketApp.
C6_LifecycleForward ==
    /\ [][/\ Len(conns') >= Len(conns)
          /\ \A c \in DOMAIN conns :
                /\ Rank(conns'[c].state) >= Rank(conns[c].state)
                /\ conns'[c].sym = conns[c].sym
          /\ Len(conns') > Len(conns) => caller.pc = "open" /\ caller'.pc = "insert"]_vars
    /\ [](\A c \in Workers : worker[c].pc = "exited" => conns[c].state = "Closed")

\* a connection dropped by the transport stays closed and tracked while the
\* caller goes on to complete another call
C6_Witness ==
    \E c \in Workers :
        /\ worker[c].pc = "exited"
        /\ c \notin Range(log.closed)
        /\ c \in ValueSet(ws_connections)
        /\ LastCallWas("start_symbol")

----------------------------------------------------------------------------
(* Properties of the alert service (SpecAlert, SpecAlertConc) *)

AlertObjs == DOMAIN alert_objs
\* the copies made of dict o, and the calls callback cb got with one of them
CopiesOf(o) == {c \in AlertObjs : <<c, o>> \in alert_log.copies}
Notifications(o, cb) ==
    {n \in 1..Len(alert_log.received) :
        /\ alert_log.received[n].callback = cb
        /\ alert_log.received[n].alert \in CopiesOf(o)}
\* the thread's check_price_alert call has called every callback
CheckDone(t) == athread[t].pc = "notify" /\ athread[t].j = Len(athread[t].triggered)
\* the thread's check_price_alert call returns in this step
CheckReturns(t) == CheckDone(t) /\ athread'[t].pc = "idle"
\* the rule of the alert engine, on the alert as it was and the tick
ShouldFire(alert, tick) ==
    /\ alert.is_active
    /\ ~alert.triggered
    /\ alert.symbol = tick.symbol
    /\ \/ alert.condition = "above" /\ tick.price > alert.threshold
       \/ alert.condition = "below" /\ tick.price < alert.threshold
IsPrefix(a, b) == Len(a) <= Len(b) /\ SubSeq(b, 1, Len(a)) = a

\* C11: no callback is called more than once for the same alert, and no step
\* takes a triggered alert back to untriggered or changes its triggered_at or
\* triggered_price.
C11_TriggersOnce ==
    /\ [](\A o \in AlertObjs : \A cb \in Range(AlertSubscribers) :
             Cardinality(Notifications(o, cb)) <= 1)
    /\ [][\A o \in AlertObjs :
            alert_objs[o].triggered =>
               /\ alert_objs'[o].triggered
               /\ alert_objs'[o].triggered_at = alert_objs[o].triggered_at
               /\ alert_objs'[o].triggered_price = alert_objs[o].triggered_price]_vars

\* a check is about to return whose tick is beyond the threshold of an alert
\* of the list that had triggered before the call began, and that was
\* notified once
C11_Witness ==
    LET f == athread[RequestThread] IN
    /\ CheckDone(RequestThread)
    /\ \E k \in 1..Len(LoopList(f)) :
          LET o == LoopList(f)[k]
              was == f.before[o]
          IN
          /\ was.triggered
          /\ was.is_active
          /\ was.symbol = f.tick.symbol
          /\ was.condition = "above"
          /\ f.tick.price > was.threshold
          /\ was.triggered_at < now
          /\ \A cb \in Range(AlertSubscribers) : Cardinality(Notifications(o, cb)) = 1

\* C12: when a check_price_alert call returns, an alert of the list has been
\* fired by it (marked triggered with the tick's price, a copy of it returned)
\* exactly if, when the call began, it was active, not triggered, of the
\* tick's symbol, and the price was strictly beyond its threshold on the side
\* of its condition; every other alert is as it was when the call began.
C12_FiresIffCrossed ==
    [][CheckReturns(RequestThread) =>
         LET f == athread[RequestThread] IN
         \A k \in 1..Len(LoopList(f)) :
            LET o == LoopList(f)[k]
                fired == \E x \in Range(f.triggered) : <<x, o>> \in alert_log.copies
            IN
            /\ fired <=> ShouldFire(f.before[o], f.tick)
            /\ fired => /\ alert_objs'[o].triggered
                        /\ alert_objs'[o].triggered_price = f.tick.price
                        /\ Without(Without(Without(alert_objs'[o], "triggered"),
                                           "triggered_at"), "triggered_price")
                             = Without(f.before[o], "triggered")
            /\ ~fired => alert_objs'[o] = f.before[o]]_vars

\* a check is about to return whose price equalled the threshold of an alert
\* that could otherwise fire, while the list also holds an alert an earlier
\* check fired
C12_Witness ==
    LET f == athread[RequestThread] IN
    /\ CheckDone(RequestThread)
    /\ f.triggered = <<>>
    /\ \E k \in 1..Len(LoopList(f)) :
          LET was == f.before[LoopList(f)[k]] IN
          /\ was.is_active /\ ~was.triggered
          /\ was.symbol = f.tick.symbol
          /\ was.threshold = f.tick.price
    /\ \E k \in 1..Len(alerts) : alert_objs[alerts[k]].triggered

\* C13: what a callback is called with is a dict other than the alert of the
\* list, made of it after triggered, triggered_at and triggered_price were
\* set; it keeps the items it had when the callback got it whatever happens
\* to the alert of the list, and what the callback writes to it does not
\* appear in the alert of the list.
C13_SubscribersGetCopy ==
    \A n \in 1..Len(alert_log.received) :
        LET r == alert_log.received[n] IN
        /\ r.seen.triggered
        /\ "triggered_at" \in DOMAIN r.seen /\ "triggered_price" \in DOMAIN r.seen
        /\ Without(alert_objs[r.alert], "acknowledged") = Without(r.seen, "acknowledged")
        /\ \E o \in AlertObjs :
              /\ <<r.alert, o>> \in alert_log.copies
              /\ o # r.alert
              /\ "acknowledged" \notin DOMAIN alert_objs[o]
              /\ alert_objs[o].triggered_at = r.seen.triggered_at

\* a callback wrote to the copy it holds and the alert of the list was
\* switched off after it fired
C13_Witness ==
    \E n \in 1..Len(alert_log.received) :
        LET r == alert_log.received[n] IN
        /\ "acknowledged" \in DOMAIN alert_objs[r.alert]
        /\ alert_objs[r.alert].is_active
        /\ \E o \in Range(alerts) :
              <<r.alert, o>> \in alert_log.copies /\ ~alert_objs[o].is_active

\* C14: a remove_alert(id) step leaves in the list, in order, exactly the
\* alerts whose id is not id, and changes no alert; any other step leaves
\* every alert of the list in the list and every triggered alert triggered.
C14_OnlyRemoveRemoves ==
    [][IF alert_log'.lastRemove # alert_log.lastRemove
       THEN /\ alerts' = SelectSeq(alerts,
                            LAMBDA o : alert_objs[o].id # alert_log'.lastRemove.id)
            /\ alert_objs' = alert_objs
       ELSE /\ IsPrefix(alerts, alerts')
            /\ \A o \in Range(alerts) : alert_objs[o].triggered => alert_objs'[o].triggered]_vars

\* the last remove_alert took a triggered alert out of the list and left a
\* triggered alert of another id in it
C14_Witness ==
    /\ alert_log.lastRemove # None
    /\ \E o \in Range(alert_log.lastRemove.before) :
          /\ alert_objs[o].triggered
          /\ alert_objs[o].id = alert_log.lastRemove.id
          /\ o \notin Range(alerts)
    /\ \E o \in Range(alerts) : alert_objs[o].triggered

\* C16: under concurrent check_price_alert calls an alert is marked and
\* copied at most once, and each callback is called at most once for it.
C16_FiresOnceConcurrently ==
    \A o \in AlertObjs :
        /\ Cardinality(CopiesOf(o)) <= 1
        /\ \A cb \in Range(AlertSubscribers) : Cardinality(Notifications(o, cb)) <= 1

----------------------------------------------------------------------------
(* Properties of the supervisor under concurrent callers (SpecSupConc) and  *)
(* of its workers (SpecSupLive)                                              *)

OpenConns(s) ==
    {c \in DOMAIN conns : conns[c].sym = s /\ conns[c].state \in {"Connecting", "Connected"}}

\* C15: whatever the interleaving of the callers, no symbol has two open
\* connections, no stop() fails in its loop over the map, and when the last
\* call to return was a stop() and no call is under way no connection is open.
C15_MapSerialized ==
    /\ \A s \in Symbols : Cardinality(OpenConns(s)) <= 1
    /\ ~log.raised
    /\ (LastCallWas("stop") /\ parked.pc = "idle") => \A s \in Symbols : OpenConns(s) = {}

\* C17: once stop() is under way, the worker of every connection the map
\* holds eventually leaves run_forever.
C17_WorkersTerminate ==
    \A c \in ConnIds :
        (caller.op = "stop" /\ c \in ValueSet(ws_connections))
            ~> (c \in DOMAIN worker /\ worker[c].pc = "exited")

\* stop() has returned after closing a connection that was Connected, and
\* the worker has left run_forever
C17_Witness ==
    /\ LastCallWas("stop")
    /\ \E c \in Range(log.closed) :
          /\ worker[c].pc = "exited"
          /\ \E d \in Range(log.closed) : d # c /\ worker[d].pc = "exited"

----------------------------------------------------------------------------
(* Properties of resample_ticks (SpecResample) *)

\* the length of the interval a call was given, in seconds
IntervalSeconds(interval) ==
    CASE interval = Interval("30", "s") -> 30
      [] interval = Interval("1mi", "n") -> 60
      [] interval = Interval("2", "m") -> 120
\* a call has returned bars for a frame of at least five ticks
Resampled == bars # None /\ Len(df) >= 5 /\ ~bars.error
\* the ticks of the frame that fall into the bucket starting at b, in time order
BucketTicks(b) ==
    LET w == IntervalSeconds(bars.interval) IN
    SelectSeq(df, LAMBDA r : b <= r.timestamp /\ r.timestamp < b + w)
BucketOf(row) ==
    LET w == IntervalSeconds(bars.interval) IN
    w * (row.timestamp \div w)
Highest(xs) == CHOOSE x \in Range(xs) : \A y \in Range(xs) : y <= x
Lowest(xs) == CHOOSE x \in Range(xs) : \A y \in Range(xs) : y >= x
RECURSIVE Total(_)
Total(xs) == IF xs = <<>> THEN 0 ELSE xs[Len(xs)] + Total(SubSeq(xs, 1, Len(xs) - 1))

\* C18: a call on a frame of fewer than five ticks returns no bar and prints
\* no error, whatever the interval and wherever the ticks fall.
C18_FewTicksEmpty ==
    (bars # None /\ Len(df) < 5) => bars.rows = <<>> /\ ~bars.error

\* four ticks in two buckets, and an interval that has no number
C18_Witness ==
    /\ bars # None
    /\ Len(df) = 4
    /\ Gaps(df) = 1
    /\ Moves(df) = 1
    /\ bars.interval = Interval("", "s")
    /\ bars.rows = <<>>

\* C19: every bar returned for a frame of at least five ticks carries open,
\* high, low, close and volume, and they are the first, the highest, the
\* lowest and the last price and the sum of the sizes of the ticks of its
\* bucket, whichever path the call took.
C19_BarsAreOhlcv ==
    Resampled =>
        \A k \in 1..Len(bars.rows) :
            LET row == bars.rows[k]
                ticks == BucketTicks(row.timestamp)
                prices == [n \in 1..Len(ticks) |-> ticks[n].price]
                sizes == [n \in 1..Len(ticks) |-> ticks[n].size]
            IN
            /\ {"open", "high", "low", "close", "volume"} \subseteq DOMAIN row
            /\ ticks # <<>>
            /\ row.open = prices[1]
            /\ row.high = Highest(prices)
            /\ row.low = Lowest(prices)
            /\ row.close = prices[Len(prices)]
            /\ row.volume = Total(sizes)

----------------------------------------------------------------------------
(* Properties of the round trip from a feed message to bars (SpecRoundTrip) *)

\* the frame holds the tick of one trade message, and a call has returned
RoundTripOf(data) == bars # None /\ df = <<Row(normalize_tick(data))>>

\* C21 as the specification states it: the tick of one trade message,
\* resampled with any interval, gives exactly one bar whose open, high, low
\* and close are the tick's price.
C21_SingleTickOneBar ==
    \A data \in TradeMessages :
        RoundTripOf(data) =>
            /\ Len(bars.rows) = 1
            /\ {"open", "high", "low", "close"} \subseteq DOMAIN bars.rows[1]
            /\ bars.rows[1].open = normalize_tick(data).price
            /\ bars.rows[1].high = normalize_tick(data).price
            /\ bars.rows[1].low = normalize_tick(data).price
            /\ bars.rows[1].close = normalize_tick(data).price

\* C21, amended: the tick of one trade message, resampled with any interval,
\* gives no bar and no error, because one tick is fewer than the five the
\* resampler asks for.
C21_SingleTickNoBar ==
    \A data \in TradeMessages :
        RoundTripOf(data) => bars.rows = <<>> /\ ~bars.error

\* the tick of the message with price "101" at 1.5 s, resampled by app.py
\* to one minute
C21_Witness ==
    /\ RoundTripOf(TradeEvent(RoundTripSymbol, 1500, "101", "100"))
    /\ df[1] = [timestamp |-> 1, price |-> 101, size |-> 100]
    /\ bars.by = "app"
    /\ bars.interval = Interval("1mi", "n")
    /\ bars.rows = <<>>

----------------------------------------------------------------------------
(* Properties of the tick store (SpecStore) *)

\* how often a row occurs in a frame
Occurs(frame, row) == Cardinality({k \in 1..Len(frame) : frame[k] = row})
\* the stored ticks of the symbol a call asked for, as rows of a frame
StoredOf(symbol) == Columns(Where(db_ticks, symbol))

\* C29: get_recent_ticks(symbol, limit) returns min(limit, stored) ticks of the
\* symbol, each of them stored, none older than a stored tick it leaves out,
\* in ascending order of timestamp.
C29_RecentTicksAscending ==
    (ret # None /\ ret.call = "get_recent_ticks") =>
        LET frame == ret.value
            stored == StoredOf(ret.args[1])
            limit == ret.args[2]
        IN
        /\ Len(frame) = Min(limit, Len(stored))
        /\ \A k \in 1..Len(frame) : Occurs(frame, frame[k]) <= Occurs(stored, frame[k])
        /\ \A k \in 1..Len(frame), n \in 1..Len(stored) :
              Earlier(frame[k].timestamp, stored[n].timestamp)
                  => Occurs(frame, stored[n]) = Occurs(stored, stored[n])
        /\ \A k \in 1..(Len(frame) - 1) :
              ~Earlier(frame[k + 1].timestamp, frame[k].timestamp)

----------------------------------------------------------------------------
(* Properties of calculate_spread_zscore (SpecSeries) *)

\* a call of calculate_spread_zscore has returned
ZscoreReturned == ret # None /\ ret.call = "calculate_spread_zscore"
\* what the copy that was called returns for the draw u
ZscoreAgain(u) ==
    IF ret.by = "app" THEN app_calculate_spread_zscore(series, ret.args[1], u)
    ELSE calculate_spread_zscore(series, ret.args[1])

\* C25: on a series of fewer than five points calculate_spread_zscore returns
\* current_zscore 0, mean 0 and std 1 for every window, and a second call
\* with the same series and window returns the same.
C25_ShortSeriesNeutral ==
    (ZscoreReturned /\ Len(series) < 5) =>
        /\ NumEq(ret.value.current_zscore, FZero)
        /\ NumEq(ret.value.mean, FZero)
        /\ NumEq(ret.value.std, FOne)
        /\ \A u \in Draws : ZscoreAgain(u) = ret.value

\* the sum of the squares of the distances of the values from m
RECURSIVE SquaresAbout(_, _)
SquaresAbout(xs, m) ==
    IF xs = <<>> THEN FZero
    ELSE FAdd(FMul(FSub(xs[1], m), FSub(xs[1], m)), SquaresAbout(Tail(xs), m))

\* mean and std are the population mean and deviation of the values xs
IsMeanStdOf(mean, std, xs) ==
    /\ "n" \in DOMAIN mean
    /\ FMul(mean, FInt(Len(xs))) = NpSum(xs)
    /\ AsSurd(std).s >= 0
    /\ FMul(AsSurd(std).q, FInt(Len(xs))) = SquaresAbout(xs, mean)

\* C26: on a series of five points or more the effective window is
\* w = min(window, len).  With w >= 2 the result carries the population mean
\* and deviation of the last w values and current_zscore = (last - mean) / std,
\* or 0 when std is 0; with w < 2 current_zscore is 0 and mean and std are
\* those of the whole series.  A window longer than the series is shortened.
C26_TrailingWindow ==
    (ZscoreReturned /\ Len(series) >= 5) =>
        LET w == Min(ret.args[1], Len(series))
            last == series[Len(series)]
            z == AsSurd(ret.value.current_zscore)
        IN
        IF w < 2
        THEN /\ NumEq(ret.value.current_zscore, FZero)
             /\ IsMeanStdOf(ret.value.mean, ret.value.std, series)
        ELSE /\ IsMeanStdOf(ret.value.mean, ret.value.std, Trailing(series, w))
             /\ IF NumEq(ret.value.std, FZero)
                THEN z = AsSurd(FZero)
                ELSE /\ z.s = Sign(FSub(last, ret.value.mean).n)
                     /\ FMul(z.q, AsSurd(ret.value.std).q)
                           = FMul(FSub(last, ret.value.mean), FSub(last, ret.value.mean))

----------------------------------------------------------------------------
(* Properties of pairwise_regression (SpecAnalytics) *)

\* the ticks the store holds of a symbol
TicksOf(symbol) == SelectSeq(db_ticks, LAMBDA r : r.symbol = symbol)
\* the intervals that name a length
Timed(interval) ==
    interval \in {Interval("30", "s"), Interval("1mi", "n"), Interval("2", "m")}
\* the buckets of an interval in which a symbol has ticks; a symbol with
\* fewer than five ticks resamples to nothing
BucketsOf(symbol, interval) ==
    IF Len(TicksOf(symbol)) < 5 THEN {}
    ELSE {IntervalSeconds(interval) * (TicksOf(symbol)[k].timestamp.sec
                                          \div IntervalSeconds(interval)) :
             k \in 1..Len(TicksOf(symbol))}
\* the buckets of the inner join of the two resampled series
Joined(symbol1, symbol2, interval) ==
    BucketsOf(symbol1, interval) \cap BucketsOf(symbol2, interval)
\* the closing price of a symbol in a bucket: the price of its last tick there
CloseAt(symbol, interval, b) ==
    LET inside == SelectSeq(TicksOf(symbol), LAMBDA r :
                      b <= r.timestamp.sec /\ r.timestamp.sec < b + IntervalSeconds(interval))
        last == CHOOSE r \in Range(inside) :
                    \A o \in Range(inside) : o.timestamp.sec <= r.timestamp.sec
    IN last.price
\* a call of pairwise_regression has returned, of either copy, the store
\* having answered
RegressionReturned ==
    /\ ret # None
    /\ ret.call = "pairwise_regression"
    /\ ret.db_ok
    /\ Timed(ret.args[3])
JoinedOfCall == Joined(ret.args[1], ret.args[2], ret.args[3])
\* a float of a result is the number v
Is(x, v) == x # FNaN /\ "of" \notin DOMAIN x /\ NumEq(x, v)
\* a result with the five values of a sentinel
IsSentinel(value, hedge_ratio, r_squared, current_spread, spread_mean, spread_std) ==
    /\ value # None
    /\ {"hedge_ratio", "r_squared", "current_spread", "spread_mean", "spread_std"}
          \subseteq DOMAIN value
    /\ Is(value.hedge_ratio, hedge_ratio)
    /\ Is(value.r_squared, r_squared)
    /\ Is(value.current_spread, current_spread)
    /\ Is(value.spread_mean, spread_mean)
    /\ Is(value.spread_std, spread_std)

\* C22: when the joined series of the first symbol is constant and has at
\* least two points, pairwise_regression returns hedge_ratio 1.0, r_squared
\* 0.5, current_spread 0, spread_mean 0 and spread_std 1, whatever the second
\* symbol's prices are.
C22_ConstantPriceDegenerate ==
    (/\ RegressionReturned
     /\ Cardinality(JoinedOfCall) >= 2
     /\ \A a, b \in JoinedOfCall :
           CloseAt(ret.args[1], ret.args[3], a) = CloseAt(ret.args[1], ret.args[3], b))
        => IsSentinel(ret.value, FOne, Frac(1, 2), FZero, FZero, FOne)

\* C23: when the inner join of the two resampled series has at least two
\* but fewer than five points, pairwise_regression returns hedge_ratio 1.2,
\* r_squared 0.75, current_spread 0.5, spread_mean 0 and spread_std 1, which
\* is not the result for a constant first series.
C23_ShortJoinLowConfidence ==
    (/\ RegressionReturned
     /\ Cardinality(JoinedOfCall) >= 2
     /\ Cardinality(JoinedOfCall) < 5)
        => /\ IsSentinel(ret.value, Frac(6, 5), Frac(3, 4), Frac(1, 2), FZero, FOne)
           /\ ~IsSentinel(ret.value, FOne, Frac(1, 2), FZero, FZero, FOne)

\* C24: every call of pairwise_regression returns a result that has all of
\* hedge_ratio, intercept, r_squared, spread_mean, spread_std and
\* current_spread, whatever the store holds and whether or not it answers.
C24_SixFieldsAlways ==
    (ret # None /\ ret.call = "pairwise_regression")
        => /\ ret.value # None
           /\ {"hedge_ratio", "intercept", "r_squared", "spread_mean", "spread_std",
               "current_spread"} \subseteq DOMAIN ret.value

----------------------------------------------------------------------------
(* Properties of adf_test, of the adf object of the analytics response and  *)
(* of rolling_correlation (SpecAnalytics, SpecSeries)                        *)

\* a stationarity result has been returned: by adf_test for the series read,
\* or inside the response of calculate_analytics for its spread series
AdfReturned == ret # None /\ ret.call \in {"adf_test", "calculate_analytics"}
AdfOf == IF ret.call = "adf_test" THEN ret.value ELSE ret.value.adf
AdfSeriesOf == IF ret.call = "adf_test" THEN series ELSE ret.spread_series
\* the response of a request without a body is for no series
AdfHasSeries == ret.call = "adf_test" \/ ret.value.success
\* the points of a series that are not missing
Present(xs) == Cardinality({k \in 1..Len(xs) : xs[k] # FNaN})

\* C27: a stationarity result says is_stationary exactly when its p_value is
\* at most 0.05, and for a series with fewer than 10 points that are not
\* missing it is test_statistic 0, p_value 1.0, critical values 0 at 1%, 5%
\* and 10% and is_stationary false; so for adf_test and for the adf object of
\* an analytics response.
C27_StationaryAtFivePercent ==
    AdfReturned =>
        /\ AdfOf.is_stationary <=> ~FLess(Frac(1, 20), AdfOf.p_value)
        /\ (AdfHasSeries /\ Present(AdfSeriesOf) < 10)
              => AdfOf = [test_statistic |-> FZero, p_value |-> FOne,
                          critical_values |-> [one |-> FZero, five |-> FZero, ten |-> FZero],
                          is_stationary |-> FALSE]

\* C28: every call of rolling_correlation returns a result, and when the
\* two symbols' resampled series share fewer buckets than the window (one of
\* them having no ticks, or too few to resample, included) the result has
\* current_correlation 0 and mean_correlation 0.
C28_FewPointsZeroCorrelation ==
    (ret # None /\ ret.call = "rolling_correlation") =>
        /\ ret.value # None
        /\ (ret.db_ok
              /\ Cardinality(Joined(ret.args[1], ret.args[2], ret.args[4])) < ret.args[3])
              => /\ Is(ret.value.current_correlation, FZero)
                 /\ Is(ret.value.mean_correlation, FZero)

----------------------------------------------------------------------------
(* Properties of the request handlers (SpecAppConc) *)

\* neither thread is inside a handler
Quiescent == handler.pc = "idle" /\ hparked.pc = "idle"

\* C30: whenever no handler is running, collection being on means every
\* symbol of active_symbols has a connection in the map, and collection
\* being off means the map is empty, however the requests interleave.
C30_CollectionTracksActive ==
    Quiescent =>
        /\ is_collecting => \A symbol \in active_symbols : Tracked(symbol)
        /\ ~is_collecting => ws_connections = <<>>

----------------------------------------------------------------------------
(* Properties of a dropped connection (SpecSup) *)

\* the entry of the map is for a connection that has closed
ClosedEntry(entry) == conns[entry.ws].state = "Closed"
\* the step is none of stop()
OutsideStop == caller.op # "stop" /\ caller'.op # "stop"

\* C31: outside stop(), a symbol whose connection has closed keeps its entry
\* in the map with that connection, the connection stays closed, and no
\* step, of start_symbol or of start, opens another connection for it.
C31_ClosedStaysTracked ==
    [][\A k \in 1..Len(ws_connections) :
          (ClosedEntry(ws_connections[k]) /\ OutsideStop)
              => /\ k <= Len(ws_connections')
                 /\ ws_connections'[k] = ws_connections[k]
                 /\ conns'[ws_connections[k].ws].state = "Closed"
                 /\ \A c \in (DOMAIN conns') \ (DOMAIN conns) :
                       conns'[c].sym # ws_connections[k].sym]_vars

\* three calls have returned, the last of them start for the symbol, none
\* of them stop; its one connection has dropped and is still in the map
C31_Witness ==
    /\ caller.pc = "idle"
    /\ caller.n = 3
    /\ log.lastCall # None
    /\ log.lastCall.op = "start"
    /\ log.closed = <<>>
    /\ \E k \in 1..Len(ws_connections) :
          /\ ClosedEntry(ws_connections[k])
          /\ ws_connections[k].sym \in Range(log.lastCall.arg)
          /\ worker[ws_connections[k].ws].pc = "exited"
          /\ Cardinality({c \in DOMAIN conns : conns[c].sym = ws_connections[k].sym}) = 1

----------------------------------------------------------------------------
(* Properties of the ids of alerts (SpecAlert) *)

\* C32: the alerts of the list have pairwise distinct ids, whatever
\* create_alert and remove_alert calls were made.
C32_DistinctIds ==
    \A i, j \in 1..Len(alerts) :
        i # j => alert_objs[alerts[i]].id # alert_objs[alerts[j]].id

----------------------------------------------------------------------------
(* SpecIngestor: the websocket thread and the batch thread of ingestor.py,  *)
(* interleaved.  SpecIngestorLive adds that the batch thread keeps being    *)
(* scheduled (it sleeps two seconds a turn and never returns) and that the  *)
(* websocket thread, once it holds the lock, appends and releases it.       *)

NextIngestor == IngestorOnMessage \/ IngestorAcquire \/ IngestorAppend \/ batch_insert_ticks

SpecIngestor == InitSup /\ [][NextIngestor]_vars

SpecIngestorLive ==
    /\ SpecIngestor
    /\ WF_vars(batch_insert_ticks)
    /\ WF_vars(IngestorAppend)

----------------------------------------------------------------------------
(* Properties of the batches of the ingestor (SpecIngestorLive) *)

RECURSIVE Concat(_)
\* the ticks of a list of batches, in order
Concat(batches) ==
    IF batches = <<>> THEN <<>> ELSE Head(batches) \o Concat(Tail(batches))

\* the batch taken from the buffer and not yet handed to the session
Taken ==
    IF ingestor.batch.pc = "add_all" THEN ingestor.batch.ticks_to_insert ELSE <<>>

====
